---- MODULE Spec2Model ----
(***************************************************************************)
(* Import pipeline of the HeartSmiles backend: the /import router          *)
(* (authenticateToken, requireHeartSmilesStaff, multer upload, handler),   *)
(* ImportController.importParticipants / importPrograms, the validators of *)
(* config/openai.js and the Participant / Program models.                  *)
(*                                                                         *)
(* JavaScript values are tagged records: Undef, Str(<<chars>>), Num(n),    *)
(* Arr(<<...>>).  A string is a sequence of one-character strings.         *)
(***************************************************************************)
EXTENDS Integers, Sequences, FiniteSets, TLC

\* ------------------------------------------------------------------ bounds
MaxRecs == 2
MaxConcRecs == 1
MaxDocs == 2

\* ------------------------------------------------------- JavaScript values
Undef == [k |-> "undef"]
Str(s) == [k |-> "str", s |-> s]
Num(n) == [k |-> "num", n |-> n]
Arr(a) == [k |-> "arr", a |-> a]
Bool(b) == [k |-> "bool", b |-> b]

IsStr(v) == v.k = "str"

\* JavaScript truthiness (the operand of !x and of x && ..., x || ...).
Truthy(v) ==
  CASE v.k = "undef" -> FALSE
    [] v.k = "str" -> Len(v.s) > 0
    [] v.k = "num" -> v.n # 0
    [] v.k = "bool" -> v.b
    [] OTHER -> TRUE

\* x || dflt
OrElse(v, dflt) == IF Truthy(v) THEN v ELSE dflt

\* String.prototype.trim on a sequence of characters.
RECURSIVE TrimLeft(_)
TrimLeft(s) == IF s # <<>> /\ Head(s) = " " THEN TrimLeft(Tail(s)) ELSE s

RECURSIVE TrimRight(_)
TrimRight(s) ==
  IF s # <<>> /\ s[Len(s)] = " " THEN TrimRight(SubSeq(s, 1, Len(s) - 1)) ELSE s

Trim(s) == TrimRight(TrimLeft(s))

\* String.prototype.toLowerCase over the alphabet of the model.
LowerChar(c) ==
  CASE c = "A" -> "a"
    [] c = "E" -> "e"
    [] c = "R" -> "r"
    [] c = "U" -> "u"
    [] c = "T" -> "t"
    [] OTHER -> c

ToLowerCase(s) == [i \in 1..Len(s) |-> LowerChar(s[i])]

Digits == {"0", "1", "2", "3", "4", "5", "6", "7", "8", "9"}

DigitVal(c) ==
  CASE c = "0" -> 0 [] c = "1" -> 1 [] c = "2" -> 2 [] c = "3" -> 3
    [] c = "4" -> 4 [] c = "5" -> 5 [] c = "6" -> 6 [] c = "7" -> 7
    [] c = "8" -> 8 [] OTHER -> 9

\* dateString.match(/^\d{4}-\d{2}-\d{2}$/)
MatchesDateShape(s) ==
  /\ Len(s) = 10
  /\ s[5] = "-" /\ s[8] = "-"
  /\ \A i \in {1, 2, 3, 4, 6, 7, 9, 10} : s[i] \in Digits

\* !isNaN(new Date(s)) for a string of the YYYY-MM-DD shape: the date-only
\* ISO form is accepted when the month is 01..12 and the day 01..31.
ParsesAsDate(s) ==
  LET mm == 10 * DigitVal(s[6]) + DigitVal(s[7])
      dd == 10 * DigitVal(s[9]) + DigitVal(s[10])
  IN mm >= 1 /\ mm <= 12 /\ dd >= 1 /\ dd <= 31

\* Faulty variant of IsValidDate: the shape alone, the date never parsed.
IsValidDateShapeOnly(v) ==
  CASE v.k = "str" -> IF MatchesDateShape(v.s) THEN "true" ELSE "false"
    [] v.k = "num" -> "throw"

\* isValidDate(dateString) of config/openai.js, called with a truthy value.
\* "throw": a number makes a valid Date and then has no .match method.
\* A string that does not have the shape yields a falsy result whether or
\* not new Date parses it, so only the shaped strings are parsed here.
IsValidDate(v) ==
  CASE v.k = "str" ->
         IF MatchesDateShape(v.s) /\ ParsesAsDate(v.s) THEN "true" ELSE "false"
    [] v.k = "num" -> "throw"

\* One guard of a validator, `!v || v.trim().length < n`: "err" pushes the
\* message, "throw" is the TypeError of calling .trim on a non-string.
CheckMinLen(v, n) ==
  IF ~Truthy(v) THEN "err"
  ELSE IF ~IsStr(v) THEN "throw"
  ELSE IF Len(Trim(v.s)) < n THEN "err" ELSE "ok"

\* One guard of a validator, `v && !isValidDate(v)`.
CheckDate(v) ==
  IF ~Truthy(v) THEN "ok"
  ELSE CASE IsValidDate(v) = "throw" -> "throw"
         [] IsValidDate(v) = "false" -> "err"
         [] OTHER -> "ok"

MsgName == "Name is required and must be at least 2 characters"
MsgDob == "Date of birth must be a valid date in YYYY-MM-DD format"
MsgReferral == "Referral date must be a valid date in YYYY-MM-DD format"
MsgIdNum == "Identification number is required and must be at least 3 characters"
MsgProgName == "Program name is required and must be at least 2 characters"
MsgProgDesc == "Program description is required and must be at least 10 characters"

\* The errors array after the guards `checks` = <<outcome, message>>, in order.
RECURSIVE Pushed(_)
Pushed(checks) ==
  IF checks = <<>> THEN <<>>
  ELSE (IF Head(checks)[1] = "err" THEN <<Head(checks)[2]>> ELSE <<>>)
         \o Pushed(Tail(checks))

ValidationOf(checks) ==
  IF \E i \in 1..Len(checks) : checks[i][1] = "throw"
  THEN [threw |-> TRUE, isValid |-> FALSE, errors |-> <<>>]
  ELSE [threw |-> FALSE, isValid |-> Pushed(checks) = <<>>, errors |-> Pushed(checks)]

MinNameLen == 2
MinIdLen == 3
MinDescLen == 10

\* Faulty variant of validateParticipantData: the identification number
\* guard left out.
validateParticipantDataNoId(p) ==
  ValidationOf(<< <<CheckMinLen(p.name, MinNameLen), MsgName>>,
                  <<CheckDate(p.dateOfBirth), MsgDob>>,
                  <<CheckDate(p.referralDate), MsgReferral>> >>)

validateParticipantData(p) ==
  ValidationOf(<< <<CheckMinLen(p.name, MinNameLen), MsgName>>,
                  <<CheckDate(p.dateOfBirth), MsgDob>>,
                  <<CheckDate(p.referralDate), MsgReferral>>,
                  <<CheckMinLen(p.identificationNumber, MinIdLen), MsgIdNum>> >>)

\* Faulty variant of validateProgramData: the description guard left out.
validateProgramDataNameOnly(p) ==
  ValidationOf(<< <<CheckMinLen(p.name, MinNameLen), MsgProgName>> >>)

validateProgramData(p) ==
  ValidationOf(<< <<CheckMinLen(p.name, MinNameLen), MsgProgName>>,
                  <<CheckMinLen(p.description, MinDescLen), MsgProgDesc>> >>)

\* ------------------------------------------------------------- the models
EmptyStr == Str(<<>>)
ServerTimestamp == "serverTimestamp"

\* Faulty variant of ParticipantDoc: the school is not copied.
ParticipantDocNoSchool(id, data) ==
  [ id |-> id,
    name |-> OrElse(data.name, EmptyStr),
    dateOfBirth |-> OrElse(data.dateOfBirth, EmptyStr),
    address |-> OrElse(data.address, EmptyStr),
    referralDate |-> OrElse(data.referralDate, EmptyStr),
    programs |-> OrElse(data.programs, Arr(<<>>)),
    school |-> EmptyStr,
    identificationNumber |-> OrElse(data.identificationNumber, EmptyStr),
    headshotPictureUrl |-> EmptyStr,
    uploadedPhotos |-> Arr(<<>>),
    notes |-> OrElse(data.notes, Arr(<<>>)),
    isActive |-> TRUE,
    createdAt |-> ServerTimestamp,
    updatedAt |-> ServerTimestamp ]

\* new Participant(data) with the store-assigned id: Participant.create.
ParticipantDoc(id, data) ==
  [ id |-> id,
    name |-> OrElse(data.name, EmptyStr),
    dateOfBirth |-> OrElse(data.dateOfBirth, EmptyStr),
    address |-> OrElse(data.address, EmptyStr),
    referralDate |-> OrElse(data.referralDate, EmptyStr),
    programs |-> OrElse(data.programs, Arr(<<>>)),
    school |-> OrElse(data.school, EmptyStr),
    identificationNumber |-> OrElse(data.identificationNumber, EmptyStr),
    headshotPictureUrl |-> EmptyStr,
    uploadedPhotos |-> Arr(<<>>),
    notes |-> OrElse(data.notes, Arr(<<>>)),
    isActive |-> TRUE,
    createdAt |-> ServerTimestamp,
    updatedAt |-> ServerTimestamp ]

\* new Program(data) with the store-assigned id: Program.create.
ProgramDoc(id, data) ==
  [ id |-> id,
    name |-> OrElse(data.name, EmptyStr),
    description |-> OrElse(data.description, EmptyStr),
    participants |-> OrElse(data.participants, Arr(<<>>)),
    isActive |-> TRUE,
    createdAt |-> ServerTimestamp,
    updatedAt |-> ServerTimestamp ]

\* Participant.delete / Program.delete: the soft delete.
SoftDeleted(doc) == [doc EXCEPT !.isActive = FALSE]

\* Faulty variant of participantExists: the scan compares the wrong field.
participantExistsByName(coll, data) ==
  \E i \in 1..Len(coll) : coll[i].name = data.identificationNumber

\* existingParticipants.find(p => p.identificationNumber === data.identificationNumber)
\* over the whole collection, as Participant.getAll() with no filter returns it.
participantExists(coll, data) ==
  \E i \in 1..Len(coll) : coll[i].identificationNumber = data.identificationNumber

\* Faulty variant of programScan: the names compared as they are.
RECURSIVE programScanExact(_, _)
programScanExact(coll, data) ==
  IF coll = <<>> THEN "none"
  ELSE IF ~IsStr(Head(coll).name) THEN "throw"
  ELSE IF Head(coll).name.s = data.name.s THEN "found"
  ELSE programScanExact(Tail(coll), data)

\* existingPrograms.find(p => p.name.toLowerCase() === data.name.toLowerCase()):
\* "found", "none", or "throw" when a document before the first match has a
\* name that is no string.
RECURSIVE programScan(_, _)
programScan(coll, data) ==
  IF coll = <<>> THEN "none"
  ELSE IF ~IsStr(Head(coll).name) THEN "throw"
  ELSE IF ToLowerCase(Head(coll).name.s) = ToLowerCase(data.name.s) THEN "found"
  ELSE programScan(Tail(coll), data)

\* The first of the documents of coll at the positions hits, as a query
\* with limit(1) or Array.prototype.find returns it.
FirstOf(coll, hits) ==
  IF hits = {} THEN [found |-> FALSE]
  ELSE [found |-> TRUE, doc |-> coll[CHOOSE i \in hits : \A j \in hits : i <= j]]

\* Program.getByName: where('name', '==', name).limit(1)
getByName(coll, name) ==
  FirstOf(coll, {i \in 1..Len(coll) : coll[i].name = name})

\* existingParticipants.find(p => p.identificationNumber === idn)
findByIdentificationNumber(coll, idn) ==
  FirstOf(coll, {i \in 1..Len(coll) : coll[i].identificationNumber = idn})

\* ----------------------------------------------- records the model extracts
Date1 == Str(<<"2", "0", "1", "0", "-", "0", "5", "-", "0", "4">>)
Desc1 == Str(<<"a", "r", "t", " ", "a", "n", "d", " ", "m", "e">>)

PRec(name, dob, idn) ==
  [ name |-> name, dateOfBirth |-> dob, address |-> EmptyStr,
    referralDate |-> Undef, school |-> Str(<<"s">>),
    identificationNumber |-> idn, programs |-> Arr(<<>>), notes |-> Undef ]

GRec(name, desc) ==
  [ name |-> name, description |-> desc, participants |-> Arr(<<>>) ]

PAnn == PRec(Str(<<"a", "n">>), Date1, Str(<<"i", "d", "1">>))
PBob == PRec(Str(<<"b", "o">>), EmptyStr, Str(<<"i", "d", "2">>))
PShortId == PRec(Str(<<"c", "y">>), Date1, Str(<<"i", " ">>))
PNumId == PRec(Str(<<"d", "i">>), Date1, Num(7))

GArt == GRec(Str(<<"A", "r", "t">>), Desc1)
GArtUpper == GRec(Str(<<"A", "R", "T">>), Desc1)
GNoDesc == GRec(Str(<<"a", "r">>), EmptyStr)
GNumName == GRec(Num(7), Desc1)

ParticipantPool == {PAnn, PBob, PShortId, PNumId}
ProgramPool == {GArt, GArtUpper, GNoDesc, GNumName}

Pool(kind) == IF kind = "participants" THEN ParticipantPool ELSE ProgramPool

\* The arrays the completion can hold: every sequence of at most MaxRecs records.
SeqsUpTo(S, n) == UNION {[1..m -> S] : m \in 0..n}

\* ------------------------------------------------------------------ state
VARIABLES
  participants,   \* the participants collection, in insertion order
  programs,       \* the programs collection, in insertion order
  staff,          \* the staff collection: id -> document
  jwtSecret,      \* whether process.env.JWT_SECRET is set
  req,            \* each request's inputs, locals and responses
  prev            \* history: the last completed import, when it was a first
                  \* import (no store fault, every key new and distinct)

vars == <<participants, programs, staff, jwtSecret, req, prev>>

Reqs == {"r1", "r2"}
FirstReq == "r1"
Kinds == {"participants", "programs"}

StaffIds == {"s1", "s2", "s3", "s4"}
GhostId == "s9"

\* jwt.verify outcomes: a JsonWebTokenError, a TokenExpiredError, another
\* error (NotBeforeError), or the payload {userId, role}.
Tokens ==
  {[t |-> "none", userId |-> GhostId], [t |-> "malformed", userId |-> GhostId],
   [t |-> "expired", userId |-> GhostId], [t |-> "notBefore", userId |-> GhostId]}
    \cup {[t |-> "valid", userId |-> u] : u \in StaffIds \cup {GhostId}}

NoUser == [id |-> GhostId, role |-> "none", isActive |-> Undef]
NoFile == [present |-> FALSE, ext |-> "none"]

Exts == {".csv", ".xlsx", ".txt", ".png"}
Mimes == {"text/csv", "text/plain", "image/png"}
allowedTypes ==
  {"text/csv", "application/csv", "text/plain", "application/vnd.ms-excel",
   "application/vnd.openxmlformats-officedocument.spreadsheetml.sheet"}
allowedExtensions == {".csv", ".xlsx", ".xls"}

\* Values of the dryRun form field: absent, "true", "false", "TRUE".
DryRunFields ==
  {Undef, Str(<<"t", "r", "u", "e">>), Str(<<"f", "a", "l", "s", "e">>),
   Str(<<"T", "R", "U", "E">>)}

NoPart == [part |-> "none", ext |-> "none", oversize |-> FALSE]

NoPrev == [some |-> FALSE, kind |-> "none", valid |-> <<>>, nSaved |-> 0, nErrors |-> 0]

\* A route of a router: its method and path, the middleware named on the route
\* itself, its handler, and whether the handler creates, updates or deletes.
Rt(router, method, path, guards, handler, write) ==
  [router |-> router, method |-> method, path |-> path, guards |-> guards,
   handler |-> handler, write |-> write]

NoRoute == Rt("none", "none", "none", <<>>, "none", FALSE)
NoParams == [id |-> "none", missing |-> FALSE, faults |-> FALSE]

\* pc is the request's position.  History, written by the actions and read by
\* no code: p0, g0 (the collections when the request arrived), before (prev
\* when it arrived), ran (the middleware and stages that ran), fatal (the
\* stage whose failure the environment produced), log (the store outcome of
\* each pass of the save loop), inserts, faults, auth (the secret and the
\* staff document as they were when authenticateToken ran, and whether its
\* staff read was made and succeeded), sent (the file
\* part of the request), calls (the completion calls made), seen (the size
\* of the collection the last scan loaded), seenAt (for each saved document,
\* the size of the collection its scan had loaded), params (the id a
\* handler was called with, whether the record it addresses was missing and
\* whether a store call of the handler failed).  route is the route matched.
IdleReq ==
  [ pc |-> "idle", kind |-> "none", token |-> [t |-> "none", userId |-> GhostId],
    user |-> NoUser, file |-> NoFile, fileStored |-> FALSE, unlinked |-> FALSE,
    dryRun |-> Undef, isDryRun |-> FALSE,
    dataIsArray |-> TRUE, data |-> <<>>, valid |-> <<>>, invalid |-> <<>>,
    k |-> 0, saved |-> <<>>, saveErrors |-> <<>>, responses |-> <<>>,
    p0 |-> <<>>, g0 |-> <<>>, inserts |-> 0, faults |-> FALSE, before |-> NoPrev,
    ran |-> {}, fatal |-> "none", log |-> <<>>,
    sent |-> NoPart, calls |-> 0, seen |-> 0, seenAt |-> <<>>,
    route |-> NoRoute, params |-> NoParams,
    auth |-> [secret |-> FALSE, exists |-> FALSE, doc |-> NoUser, read |-> "none"] ]

InitStaff ==
  [ u \in StaffIds |->
      CASE u = "s1" -> [id |-> u, role |-> "heartSmiles", isActive |-> Bool(TRUE)]
        [] u = "s2" -> [id |-> u, role |-> "umd", isActive |-> Bool(TRUE)]
        [] u = "s3" -> [id |-> u, role |-> "heartSmiles", isActive |-> Bool(FALSE)]
        [] OTHER -> [id |-> u, role |-> "heartSmiles", isActive |-> Undef] ]

\* Stores the program can be in before the first import: empty, or holding a
\* soft-deleted participant / program created earlier.
InitStores ==
  { [p |-> <<>>, g |-> <<>>],
    [p |-> <<SoftDeleted(ParticipantDoc(1, PBob))>>,
     g |-> <<SoftDeleted(ProgramDoc(1, GArt))>>] }

Init ==
  /\ \E st \in InitStores : participants = st.p /\ programs = st.g
  /\ staff = InitStaff
  /\ jwtSecret \in BOOLEAN
  /\ req = [r \in Reqs |-> IdleReq]
  /\ prev = NoPrev

\* res.status(status).json(body): one more response of request r.
Respond(q, body) == [q EXCEPT !.pc = "done", !.responses = Append(@, body)]

\* {error} bodies; t tags the three shapes of body the router sends.
ErrorBody(status, error) ==
  [t |-> "error", status |-> status, error |-> error, details |-> FALSE]

StoreFrame == UNCHANGED <<participants, programs, staff, jwtSecret>>

\* ------------------------------------------------- the /import middleware
\* A request reaches the router.  Requests are handled one at a time here:
\* the next one arrives when the previous one has been answered.
Arrive(r) ==
  /\ r = FirstReq
  /\ req[r].pc \in {"idle", "done"}
  /\ \E kind \in Kinds, tok \in Tokens :
       req' = [req EXCEPT ![r] =
                 [IdleReq EXCEPT !.pc = "received", !.kind = kind, !.token = tok,
                                 !.p0 = participants, !.g0 = programs,
                                 !.before = prev]]
  /\ StoreFrame /\ UNCHANGED prev

\* `!staff || !staff.isActive`
InvalidOrInactive(doc) == ~Truthy(doc.isActive)

\* authenticateToken; dbOk is whether the staff read succeeds.
authenticateToken(q, dbOk) ==
  IF ~jwtSecret THEN Respond(q, ErrorBody(500, "Server configuration error"))
  ELSE IF q.token.t = "none" THEN Respond(q, ErrorBody(401, "Access token required"))
  ELSE IF q.token.t = "malformed" THEN Respond(q, ErrorBody(401, "Invalid token"))
  ELSE IF q.token.t = "expired" THEN Respond(q, ErrorBody(401, "Token expired"))
  ELSE IF q.token.t = "notBefore" THEN Respond(q, ErrorBody(500, "Authentication error"))
  ELSE IF ~dbOk \/ q.token.userId \notin DOMAIN staff
    THEN Respond(q, ErrorBody(500, "Authentication error"))
  ELSE IF InvalidOrInactive(staff[q.token.userId])
    THEN Respond(q, ErrorBody(401, "Invalid or inactive user"))
  ELSE [q EXCEPT !.pc = "authenticated", !.user = staff[q.token.userId]]

AuthenticateToken(r) ==
  /\ req[r].pc = "received"
  /\ \E dbOk \in BOOLEAN :
       LET uid == req[r].token.userId
           seen == [secret |-> jwtSecret, exists |-> uid \in DOMAIN staff,
                    doc |-> IF uid \in DOMAIN staff THEN staff[uid] ELSE NoUser,
                    read |-> IF ~jwtSecret \/ req[r].token.t # "valid" THEN "none"
                             ELSE IF dbOk THEN "ok" ELSE "failed"]
       IN req' = [req EXCEPT ![r] = [authenticateToken(@, dbOk) EXCEPT !.auth = seen]]
  /\ StoreFrame /\ UNCHANGED prev

\* Faulty variant of requireHeartSmilesStaff: either role is let through.
requireEitherRole(q) ==
  IF q.user.role \notin {"heartSmiles", "umd"}
  THEN Respond(q, ErrorBody(403, "Staff access required"))
  ELSE [q EXCEPT !.pc = "authorized"]

\* requireStaffAccess: both staff roles pass.
requireStaffAccess(q) ==
  IF q.user.role \notin {"heartSmiles", "umd"}
  THEN Respond(q, ErrorBody(403, "Staff access required"))
  ELSE [q EXCEPT !.pc = "authorized"]

requireHeartSmilesStaff(q) ==
  IF q.user.role # "heartSmiles"
  THEN Respond(q, ErrorBody(403, "HeartSmiles staff access required"))
  ELSE [q EXCEPT !.pc = "authorized"]

\* requireReadOnlyAccess: umd staff pass with GET only.
requireReadOnlyAccess(q, method) ==
  IF q.user.role = "umd" /\ method # "GET"
  THEN Respond(q, ErrorBody(403, "UMD staff have read-only access"))
  ELSE [q EXCEPT !.pc = "authorized"]

RequireHeartSmilesStaff(r) ==
  /\ req[r].pc = "authenticated"
  /\ req' = [req EXCEPT ![r] = requireHeartSmilesStaff(@)]
  /\ StoreFrame /\ UNCHANGED prev

\* multer's fileFilter
fileFilter(mime, ext) == mime \in allowedTypes \/ ext \in allowedExtensions

\* The multipart body: no file part, a file part named 'file', or a file
\* part under another field name.
FileParts == {"none", "file", "other"}

\* upload.single('file') followed by handleUploadError: no file part leaves
\* req.file unset; a file under another field, a filtered or an oversized
\* file is answered 400 and not kept.
upload(q, part, ext, mime, oversize) ==
  IF part = "none" THEN [q EXCEPT !.pc = "uploaded"]
  ELSE IF part = "other" THEN Respond(q, ErrorBody(400, "Unexpected file field."))
  ELSE IF ~fileFilter(mime, ext)
    THEN Respond(q, ErrorBody(400, "Only CSV and Excel files are allowed"))
  ELSE IF oversize
    THEN Respond(q, ErrorBody(400, "File size too large. Maximum size is 10MB."))
  ELSE [q EXCEPT !.pc = "uploaded", !.file = [present |-> TRUE, ext |-> ext],
                 !.fileStored = TRUE]

Upload(r) ==
  /\ req[r].pc = "authorized"
  /\ \E part \in FileParts, ext \in Exts, mime \in Mimes, oversize \in BOOLEAN :
       req' = [req EXCEPT ![r] =
                 [upload(@, part, ext, mime, oversize) EXCEPT
                    !.ran = @ \cup {"upload"},
                    !.sent = IF part = "file"
                             THEN [part |-> part, ext |-> ext, oversize |-> oversize]
                             ELSE [NoPart EXCEPT !.part = part]]]
  /\ StoreFrame /\ UNCHANGED prev

\* ------------------------------------------------------------ the handler
\* fs.unlink(req.file.path, ...)
Unlink(q) == [q EXCEPT !.unlinked = TRUE]

\* The catch block of the handler: unlink when req.file is set, then 500.
Caught(q, message) ==
  Respond(IF q.file.present THEN Unlink(q) ELSE q, ErrorBody(500, message))

\* ImportController.parseFile by extension; readOk is whether the reader
\* (csv-parser stream, XLSX.readFile) succeeds.
parseFile(ext, readOk) ==
  IF ext = ".csv" THEN (IF readOk THEN "rows" ELSE "stream error")
  ELSE IF ext \in {".xlsx", ".xls"}
    THEN (IF readOk THEN "rows" ELSE "Error parsing Excel file")
  ELSE "Unsupported file format"

\* Faulty variant of startImport: the flag compared with the boolean true, which no
\* form field equals.
startImportBoolFlag(q, field, readOk) ==
  IF ~q.file.present THEN Respond(q, ErrorBody(400, "No file uploaded"))
  ELSE LET q1 == [q EXCEPT !.dryRun = field, !.isDryRun = FALSE]
       IN IF parseFile(q.file.ext, readOk) = "rows"
          THEN [q1 EXCEPT !.pc = "parsed"]
          ELSE Caught(q1, parseFile(q.file.ext, readOk))

\* Faulty variant of startImport: the flag compared ignoring case.
startImportAnyCase(q, field, readOk) ==
  IF ~q.file.present THEN Respond(q, ErrorBody(400, "No file uploaded"))
  ELSE LET q1 == [q EXCEPT !.dryRun = field,
                           !.isDryRun = IF IsStr(field)
                                        THEN ToLowerCase(field.s) = <<"t", "r", "u", "e">>
                                        ELSE FALSE]
       IN IF parseFile(q.file.ext, readOk) = "rows"
          THEN [q1 EXCEPT !.pc = "parsed"]
          ELSE Caught(q1, parseFile(q.file.ext, readOk))

\* The handler up to its first await returning: the file check, the dryRun
\* field, parseFile.
startImport(q, field, readOk) ==
  IF ~q.file.present THEN Respond(q, ErrorBody(400, "No file uploaded"))
  ELSE LET dryRun == IF field = Undef THEN Str(<<"f", "a", "l", "s", "e">>) ELSE field
           q1 == [q EXCEPT !.dryRun = field,
                           !.isDryRun = (dryRun = Str(<<"t", "r", "u", "e">>))]
       IN IF parseFile(q.file.ext, readOk) = "rows"
          THEN [q1 EXCEPT !.pc = "parsed"]
          ELSE Caught(q1, parseFile(q.file.ext, readOk))

ParseFile(r) ==
  /\ req[r].pc = "uploaded"
  /\ \E field \in DryRunFields, readOk \in BOOLEAN :
       req' = [req EXCEPT ![r] =
                 [startImport(@, field, readOk) EXCEPT
                    !.ran = @ \cup {"handler"},
                    !.fatal = IF req[r].file.present
                                 /\ parseFile(req[r].file.ext, readOk) # "rows"
                              THEN "parse" ELSE "none"]]
  /\ StoreFrame /\ UNCHANGED prev

\* Faulty variant of extracted: the failure branch answers without returning, so the
\* handler goes on with aiResult.data undefined.
extractedNoReturn(q, success, isArray, data) ==
  IF ~success
  THEN [Respond(q, [ErrorBody(500, "Failed to process data with AI") EXCEPT
                      !.details = TRUE]) EXCEPT
          !.pc = "extracted", !.dataIsArray = FALSE]
  ELSE [q EXCEPT !.pc = "extracted", !.dataIsArray = isArray, !.data = data]

\* Faulty variant of extracted: the extracted records go to the save loop
\* unvalidated.
extractedUnvalidated(q, success, isArray, data) ==
  IF ~success
  THEN Respond(q, [ErrorBody(500, "Failed to process data with AI") EXCEPT
                     !.details = TRUE])
  ELSE [q EXCEPT !.pc = "validated", !.dataIsArray = isArray, !.data = data,
                 !.valid = data]

\* Faulty variant of extracted: a failed completion is asked for again.
extractedRetry(q, success, isArray, data) ==
  IF ~success THEN [q EXCEPT !.pc = "parsed"]
  ELSE [q EXCEPT !.pc = "extracted", !.dataIsArray = isArray, !.data = data]

\* The completion returned: {success:false} is answered 500 at once.
extracted(q, success, isArray, data) ==
  IF ~success
  THEN Respond(q, [ErrorBody(500, "Failed to process data with AI") EXCEPT
                     !.details = TRUE])
  ELSE [q EXCEPT !.pc = "extracted", !.dataIsArray = isArray, !.data = data]

\* What one completion call can come to: the call fails, the text it returns
\* is no JSON, or it is JSON.
CompletionOutcomes == {"callFailed", "notJson", "json"}

\* What the JSON can hold under the participants / programs key: a value
\* that is no array, or an array of at most MaxRecs records.
Payloads(kind) ==
  {[isArray |-> FALSE, data |-> <<>>]}
    \cup {[isArray |-> TRUE, data |-> d] : d \in SeqsUpTo(Pool(kind), MaxRecs)}

\* processParticipantData / processProgramData: one call of the completion
\* API in a try block, JSON.parse of its text; any throw is caught and
\* returned as {success: false, error}.
processData(outcome, payload) ==
  IF outcome = "json"
  THEN [success |-> TRUE, isArray |-> payload.isArray, data |-> payload.data]
  ELSE [success |-> FALSE, isArray |-> TRUE, data |-> <<>>]

Extract(r) ==
  /\ req[r].pc = "parsed"
  /\ \E outcome \in CompletionOutcomes, payload \in Payloads(req[r].kind) :
       LET aiResult == processData(outcome, payload)
       IN req' = [req EXCEPT ![r] =
                    [extracted(@, aiResult.success, aiResult.isArray, aiResult.data)
                       EXCEPT !.calls = @ + 1,
                              !.fatal = IF outcome = "json" THEN @ ELSE "extract"]]
  /\ StoreFrame /\ UNCHANGED prev

validateData(kind, rec) ==
  IF kind = "participants" THEN validateParticipantData(rec)
  ELSE validateProgramData(rec)

\* data.map(rec => ({record, validation}))
validationResults(kind, data) ==
  [i \in 1..Len(data) |-> [record |-> data[i], validation |-> validateData(kind, data[i])]]

\* Faulty variant of validRecords: the filter left out.
validRecordsUnfiltered(results) == [i \in 1..Len(results) |-> results[i].record]

\* .filter(result => result.validation.isValid).map(result => result.record)
validRecords(results) ==
  LET kept == SelectSeq(results, LAMBDA x : x.validation.isValid)
  IN [i \in 1..Len(kept) |-> kept[i].record]

\* .filter(result => !result.validation.isValid).map(... {record, errors})
invalidRecords(results) ==
  LET kept == SelectSeq(results, LAMBDA x : ~x.validation.isValid)
  IN [i \in 1..Len(kept) |-> [record |-> kept[i].record,
                              errors |-> kept[i].validation.errors]]

\* The synchronous stretch after the completion: map, filter, filter.  A
\* data value that is no array, or a validator that throws, lands in catch.
validated(q) ==
  LET results == validationResults(q.kind, q.data)
  IN IF ~q.dataIsArray \/ \E i \in 1..Len(results) : results[i].validation.threw
     THEN Caught(q, "TypeError")
     ELSE [q EXCEPT !.pc = "validated", !.valid = validRecords(results),
                    !.invalid = invalidRecords(results)]

Validate(r) ==
  /\ req[r].pc = "extracted"
  /\ req' = [req EXCEPT ![r] = [validated(@) EXCEPT !.ran = @ \cup {"validate"}]]
  /\ StoreFrame /\ UNCHANGED prev

DryRunBody(q) ==
  [t |-> "dryRun", status |-> 200, message |-> "Dry run completed",
   summary |-> [totalProcessed |-> Len(q.data), valid |-> Len(q.valid),
                invalid |-> Len(q.invalid)],
   valid |-> q.valid, invalid |-> q.invalid]

\* if (isDryRun) { fs.unlink(...); return res.json(...) }
dryRunCompleted(q) == Respond(Unlink(q), DryRunBody(q))

DryRunCompleted(r) ==
  /\ req[r].pc = "validated"
  /\ req[r].isDryRun
  /\ req' = [req EXCEPT ![r] = dryRunCompleted(@)]
  /\ StoreFrame /\ UNCHANGED prev

\* Entering the save loop with empty savedParticipants / saveErrors.
BeginPersist(r) ==
  /\ req[r].pc = "validated"
  /\ ~req[r].isDryRun
  /\ req' = [req EXCEPT ![r] = [@ EXCEPT !.pc = "persisting", !.k = 1,
                                          !.ran = @ \cup {"persist"}]]
  /\ StoreFrame /\ UNCHANGED prev

MsgParticipantExists == "Participant with this identification number already exists"
MsgProgramExists == "Program with this name already exists"
MsgExists(kind) == IF kind = "participants" THEN MsgParticipantExists ELSE MsgProgramExists

\* Faulty variant of SaveError: the per-record error rethrown to the handler's catch.
SaveErrorRethrown(q, error) == Caught(q, error)

\* saveErrors.push({record, error}) and on to the next record.
SaveError(q, error) ==
  [q EXCEPT !.pc = "persisting", !.k = @ + 1,
            !.saveErrors = Append(@, [record |-> q.valid[q.k], error |-> error])]

\* What the scan of the freshly loaded collection finds for record data.
scanResult(kind, data) ==
  IF kind = "participants"
  THEN (IF participantExists(participants, data) THEN "found" ELSE "none")
  ELSE programScan(programs, data)

\* Faulty variant of scanned: the collection is loaded once, before the loop.
scannedLoadedOnce(q, readOk) ==
  LET found == IF q.kind = "participants"
               THEN (IF participantExists(q.p0, q.valid[q.k]) THEN "found" ELSE "none")
               ELSE programScan(q.g0, q.valid[q.k])
  IN IF ~readOk THEN SaveError(q, "Error getting collection")
     ELSE CASE found = "found" -> SaveError(q, MsgExists(q.kind))
            [] found = "throw" -> SaveError(q, "TypeError")
            [] OTHER -> [q EXCEPT !.pc = "scanned"]

\* Faulty variant of scanned: the loaded collection is not searched.
scannedNoCheck(q, readOk) ==
  IF ~readOk THEN SaveError(q, "Error getting collection")
  ELSE [q EXCEPT !.pc = "scanned"]

\* Faulty variant of scanned: a duplicate is skipped without a saveErrors entry.
scannedSilentSkip(q, readOk) ==
  IF ~readOk THEN SaveError(q, "Error getting collection")
  ELSE CASE scanResult(q.kind, q.valid[q.k]) = "found" ->
              [q EXCEPT !.pc = "persisting", !.k = @ + 1]
         [] scanResult(q.kind, q.valid[q.k]) = "throw" -> SaveError(q, "TypeError")
         [] OTHER -> [q EXCEPT !.pc = "scanned"]

\* One pass of the loop up to the create call: getAll(), find, the duplicate
\* branch.  readOk is whether the store read succeeds.
scanned(q, readOk) ==
  IF ~readOk THEN SaveError(q, "Error getting collection")
  ELSE CASE scanResult(q.kind, q.valid[q.k]) = "found" -> SaveError(q, MsgExists(q.kind))
         [] scanResult(q.kind, q.valid[q.k]) = "throw" -> SaveError(q, "TypeError")
         [] OTHER -> [q EXCEPT !.pc = "scanned"]

\* The natural key of a record or document: the identification number as
\* it is, the program name ignoring case.
NaturalKey(kind, data) ==
  IF kind = "participants" THEN data.identificationNumber
  ELSE ToLowerCase(data.name.s)

DistinctKeys(kind, list) ==
  \A i, j \in 1..Len(list) :
    i # j => NaturalKey(kind, list[i]) # NaturalKey(kind, list[j])

\* Whether record data has its natural key in the collections p, g.
KeyPresent(kind, p, g, data) ==
  LET coll == IF kind = "participants" THEN p ELSE g
  IN \E i \in 1..Len(coll) : NaturalKey(kind, coll[i]) = NaturalKey(kind, data)

Scan(r) ==
  /\ req[r].pc = "persisting"
  /\ req[r].k <= Len(req[r].valid)
  /\ \E readOk \in BOOLEAN :
       LET q == req[r]
           what == IF ~readOk THEN <<[k |-> q.k, what |-> "read"]>>
                   ELSE IF KeyPresent(q.kind, participants, programs, q.valid[q.k])
                     THEN <<[k |-> q.k, what |-> "dup"]>>
                   ELSE <<>>
       IN req' = [req EXCEPT ![r] = [scanned(@, readOk) EXCEPT
                                       !.log = @ \o what,
                                       !.faults = @ \/ ~readOk,
                                       !.seen = Len(IF q.kind = "participants"
                                                    THEN participants
                                                    ELSE programs)]]
  /\ StoreFrame /\ UNCHANGED prev

\* The document Model.create adds for record data of the given kind.
NewDoc(kind, data) ==
  IF kind = "participants" THEN ParticipantDoc(Len(participants) + 1, data)
  ELSE ProgramDoc(Len(programs) + 1, data)

\* savedParticipants.push(participant) after a successful create.
Saved(q, doc) ==
  [q EXCEPT !.pc = "persisting", !.k = @ + 1, !.saved = Append(@, doc)]

\* await Model.create(data): the insert, or its failure caught per record.
Insert(r) ==
  /\ req[r].pc = "scanned"
  /\ \/ /\ req' = [req EXCEPT ![r] =
                     [SaveError(@, "Error creating document") EXCEPT
                        !.faults = TRUE,
                        !.log = Append(@, [k |-> req[r].k, what |-> "create"])]]
        /\ UNCHANGED <<participants, programs>>
     \/ LET doc == NewDoc(req[r].kind, req[r].valid[req[r].k])
        IN /\ req' = [req EXCEPT ![r] =
                        [Saved(@, doc) EXCEPT
                           !.inserts = @ + 1,
                           !.seenAt = Append(@, req[r].seen),
                           !.log = Append(@, [k |-> req[r].k, what |-> "saved"])]]
           /\ IF req[r].kind = "participants"
              THEN participants' = Append(participants, doc) /\ UNCHANGED programs
              ELSE programs' = Append(programs, doc) /\ UNCHANGED participants
  /\ UNCHANGED <<staff, jwtSecret, prev>>

ImportBody(q) ==
  [t |-> "import", status |-> 200, message |-> "Import completed",
   summary |-> [totalProcessed |-> Len(q.data), saved |-> Len(q.saved),
                saveErrors |-> Len(q.saveErrors),
                validationErrors |-> Len(q.invalid)],
   saved |-> q.saved, saveErrors |-> q.saveErrors, invalid |-> q.invalid]

\* After the loop: fs.unlink(...); res.json(...)
importCompleted(q) == Respond(Unlink(q), ImportBody(q))

\* A first import: no store call of the run failed and every valid record's
\* key was new to the store and to the list.
FirstImport(q) ==
  /\ ~q.faults
  /\ DistinctKeys(q.kind, q.valid)
  /\ \A i \in 1..Len(q.valid) : ~KeyPresent(q.kind, q.p0, q.g0, q.valid[i])

ImportCompleted(r) ==
  /\ req[r].pc = "persisting"
  /\ req[r].k > Len(req[r].valid)
  /\ req' = [req EXCEPT ![r] = importCompleted(@)]
  /\ prev' = IF FirstImport(req[r])
             THEN [some |-> TRUE, kind |-> req[r].kind, valid |-> req[r].valid,
                   nSaved |-> Len(req[r].saved), nErrors |-> Len(req[r].saveErrors)]
             ELSE NoPrev
  /\ StoreFrame

Next ==
  \E r \in Reqs :
    \/ Arrive(r)
    \/ AuthenticateToken(r)
    \/ RequireHeartSmilesStaff(r)
    \/ Upload(r)
    \/ ParseFile(r)
    \/ Extract(r)
    \/ Validate(r)
    \/ DryRunCompleted(r)
    \/ BeginPersist(r)
    \/ Scan(r)
    \/ Insert(r)
    \/ ImportCompleted(r)

Spec == Init /\ [][Next]_vars

\* ------------------------------------- the validators on one extracted record
\* Field values the completion can put in a record: absent, empty, short,
\* padded with spaces, long enough.
DateBadMonth == Str(<<"2", "0", "1", "0", "-", "1", "3", "-", "0", "4">>)
DateNoPad == Str(<<"2", "0", "1", "0", "-", "5", "-", "4">>)
DatePadded == Str(<<"2", "0", "1", "0", "-", "0", "5", "-", "0", "4", " ">>)
Desc9 == Str(<<"a", "r", "t", " ", "a", "n", "d", " ", "m">>)
Desc9Padded == Str(<<"a", "r", "t", " ", "a", "n", "d", " ", "m", " ">>)

FieldNames ==
  {Undef, EmptyStr, Str(<<"a">>), Str(<<"a", " ">>), Str(<<"a", "n">>),
   Str(<<" ", "a", "n", " ">>)}
FieldIds ==
  {Undef, EmptyStr, Str(<<"i", "d">>), Str(<<"i", "d", " ">>),
   Str(<<"i", "d", "1">>), Str(<<" ", "i", "d", "1">>)}
FieldDates ==
  {Undef, EmptyStr, Str(<<" ">>), Date1, DateBadMonth, DateNoPad, DatePadded}
FieldDescs == {Undef, EmptyStr, Desc9, Desc9Padded, Desc1}

FieldRecords(kind) ==
  IF kind = "participants"
  THEN {[PRec(n, d, i) EXCEPT !.referralDate = f] :
          n \in FieldNames, d \in FieldDates, i \in FieldIds, f \in FieldDates}
  ELSE {GRec(n, d) : n \in FieldNames, d \in FieldDescs}

\* The request of a heartSmiles staff member as the middleware and the
\* handler leave it when the completion has returned the array data.
ExtractedRequest(kind, field, data) ==
  LET tok == [t |-> "valid", userId |-> "s1"]
      q0 == [IdleReq EXCEPT !.pc = "received", !.kind = kind, !.token = tok,
                            !.p0 = participants, !.g0 = programs]
      q1 == [authenticateToken(q0, TRUE) EXCEPT
               !.auth = [secret |-> jwtSecret, exists |-> TRUE, doc |-> staff["s1"],
                         read |-> "ok"]]
      q2 == requireHeartSmilesStaff(q1)
      q3 == [upload(q2, "file", ".csv", "text/csv", FALSE) EXCEPT
               !.ran = {"upload"},
               !.sent = [part |-> "file", ext |-> ".csv", oversize |-> FALSE]]
      q4 == [startImport(q3, field, TRUE) EXCEPT !.ran = {"upload", "handler"}]
  IN [extracted(q4, TRUE, TRUE, data) EXCEPT !.calls = 1]

InitValidator ==
  /\ \E st \in InitStores : participants = st.p /\ programs = st.g
  /\ staff = InitStaff
  /\ jwtSecret = TRUE
  /\ prev = NoPrev
  /\ \E kind \in Kinds, field \in DryRunFields :
       \E rec \in FieldRecords(kind) :
         req = [r \in Reqs |-> IF r = FirstReq
                               THEN ExtractedRequest(kind, field, <<rec>>)
                               ELSE IdleReq]

NextValidator == \E r \in Reqs : Validate(r)

SpecValidator == InitValidator /\ [][NextValidator]_vars

\* ------------------------------------------------ two imports at the same time
\* Two requests of the same staff member, both past the completion call,
\* each with an array of at most MaxConcRecs records and no dryRun field.
\* Their awaits (getAll, create) interleave freely.
InitConcurrent ==
  /\ \E st \in InitStores : participants = st.p /\ programs = st.g
  /\ staff = InitStaff
  /\ jwtSecret = TRUE
  /\ prev = NoPrev
  /\ \E kind \in Kinds :
       \E d1, d2 \in SeqsUpTo(Pool(kind), MaxConcRecs) :
         req = [r \in Reqs |->
                  ExtractedRequest(kind, Undef, IF r = FirstReq THEN d1 ELSE d2)]

NextConcurrent ==
  \E r \in Reqs :
    \/ Validate(r)
    \/ BeginPersist(r)
    \/ Scan(r)
    \/ Insert(r)
    \/ ImportCompleted(r)

SpecConcurrent == InitConcurrent /\ [][NextConcurrent]_vars

\* ------------------------------------- the participants and programs routers
\* Request bodies of POST and PUT: the fields a form sends, the others absent.
PBody(name, dob, idn) ==
  [ name |-> name, dateOfBirth |-> dob, address |-> Undef,
    referralDate |-> Undef, school |-> Undef,
    identificationNumber |-> idn, programs |-> Undef, notes |-> Undef ]

GBody(name, desc) == [ name |-> name, description |-> desc, participants |-> Undef ]

ParticipantBodies ==
  {PBody(Str(<<"a", "n">>), Date1, Str(<<"i", "d", "1">>)),
   PBody(Str(<<"b", "o">>), Date1, Str(<<"i", "d", "2">>)),
   PBody(Str(<<"c", "y">>), Undef, Str(<<"i", "d", "3">>)),
   PBody(Str(<<"d", "i">>), Date1, Str(<<"i", "d">>)),
   PBody(Undef, Undef, Undef)}

ProgramBodies ==
  {GBody(Str(<<"A", "r", "t">>), Desc1), GBody(Str(<<"A", "R", "T">>), Undef),
   GBody(Str(<<"a">>), Desc1), GBody(Undef, Undef)}

\* body(field).optional().isLength({min: n})
RuleMinLen(v, n) == v = Undef \/ (IsStr(v) /\ Len(v.s) >= n)

\* body(field).optional().isISO8601(), for the date strings of the model.
RuleISO8601(v) == v = Undef \/ (IsStr(v) /\ MatchesDateShape(v.s) /\ ParsesAsDate(v.s))

\* validationResult(req).isEmpty() under ParticipantController.getValidationRules()
participantRulesPass(body) ==
  /\ RuleMinLen(body.name, 2)
  /\ RuleISO8601(body.dateOfBirth)
  /\ RuleMinLen(body.identificationNumber, 3)
  /\ RuleMinLen(body.school, 2)
  /\ RuleMinLen(body.address, 5)
  /\ RuleISO8601(body.referralDate)

\* validationResult(req).isEmpty() under ProgramController.getValidationRules()
programRulesPass(body) ==
  RuleMinLen(body.name, 2) /\ RuleMinLen(body.description, 2)

\* Participant.validate(data).isValid, for string or absent fields; no email.
ParticipantValidate(data) ==
  /\ CheckMinLen(data.name, 2) = "ok"
  /\ Truthy(data.dateOfBirth)
  /\ MatchesDateShape(data.dateOfBirth.s) /\ ParsesAsDate(data.dateOfBirth.s)
  /\ CheckMinLen(data.identificationNumber, 3) = "ok"

\* Program.validate(data).isValid, for string or absent fields.
ProgramValidate(data) ==
  /\ CheckMinLen(data.name, 2) = "ok"
  /\ IF Truthy(data.description) THEN Len(Trim(data.description.s)) >= 2 ELSE TRUE

\* Object.keys(updateData).length > 0
NonEmptyBody(body) == \E f \in DOMAIN body : body[f] # Undef

\* doc(id).update({...updateData, updatedAt}): the fields sent replace the
\* document's.
Updated(doc, body) ==
  [f \in DOMAIN doc |->
     IF f \in DOMAIN body /\ body[f] # Undef THEN body[f] ELSE doc[f]]

\* POST /participants by heartSmiles staff: 400 unless the rules and
\* Participant.validate pass, else Participant.create.
CreateParticipant ==
  /\ Len(participants) < MaxDocs
  /\ \E body \in ParticipantBodies :
       /\ participantRulesPass(body) /\ ParticipantValidate(body)
       /\ participants' = Append(participants,
                                  ParticipantDoc(Len(participants) + 1, body))
  /\ UNCHANGED <<programs, staff, jwtSecret, req, prev>>

\* PUT /participants/:id by heartSmiles staff, for an existing id: 400 unless
\* the rules pass and the body is empty or passes Participant.validate, else
\* Participant.update.
UpdateParticipant ==
  /\ \E id \in 1..Len(participants), body \in ParticipantBodies :
       /\ participantRulesPass(body)
       /\ IF NonEmptyBody(body) THEN ParticipantValidate(body) ELSE TRUE
       /\ participants' = [participants EXCEPT ![id] = Updated(@, body)]
  /\ UNCHANGED <<programs, staff, jwtSecret, req, prev>>

\* POST /programs: 400 unless the rules and Program.validate pass, else
\* Program.create.
CreateProgram ==
  /\ Len(programs) < MaxDocs
  /\ \E body \in ProgramBodies :
       /\ programRulesPass(body) /\ ProgramValidate(body)
       /\ programs' = Append(programs, ProgramDoc(Len(programs) + 1, body))
  /\ UNCHANGED <<participants, staff, jwtSecret, req, prev>>

\* PUT /programs/:id, for an existing id.
UpdateProgram ==
  /\ \E id \in 1..Len(programs), body \in ProgramBodies :
       /\ programRulesPass(body)
       /\ IF NonEmptyBody(body) THEN ProgramValidate(body) ELSE TRUE
       /\ programs' = [programs EXCEPT ![id] = Updated(@, body)]
  /\ UNCHANGED <<participants, staff, jwtSecret, req, prev>>

\* The four handlers, each a single step, one request at a time, from the
\* stores of Init; the collections hold at most MaxDocs documents.
NextRouters ==
  \/ CreateParticipant
  \/ UpdateParticipant
  \/ CreateProgram
  \/ UpdateProgram

SpecRouters == Init /\ [][NextRouters]_vars

\* ------------------------------------------------------------ properties
\* The body of the request's last response.
Body(q) == q.responses[Len(q.responses)]

Answered(q, t) == q.pc = "done" /\ Body(q).t = t

StoreAsOnArrival(q) == participants = q.p0 /\ programs = q.g0

TrueField == Str(<<"t", "r", "u", "e">>)

\* C1: a request whose dryRun field is "true" performs no store insert, and
\* the participants and programs collections stay what they were when it
\* arrived, whatever the file, the extraction result and the store held.
C1_DryRunNeverMutatesStore ==
  \A r \in Reqs :
    req[r].dryRun = TrueField => StoreAsOnArrival(req[r]) /\ req[r].inserts = 0

\* A dry run that answered with valid records over a store that holds documents.
C1_Witness ==
  \E r \in Reqs :
    /\ Answered(req[r], "dryRun")
    /\ req[r].dryRun = TrueField
    /\ Len(req[r].valid) >= 1
    /\ Len(participants) + Len(programs) >= 3

\* Whether the request carried a verifiable token of an existing, active
\* staff member whose role is heartSmiles, as the store stood at the check.
Entitled(q) ==
  /\ q.auth.secret
  /\ q.token.t = "valid"
  /\ q.auth.exists
  /\ q.auth.doc.isActive = Bool(TRUE)
  /\ q.auth.doc.role = "heartSmiles"

\* C2: the upload middleware and the import handler run only for an entitled
\* request; every other request is answered once with 401, 403 or 500, with
\* no temp file stored, no stage run and the store untouched.
C2_ImportRequiresHeartSmilesStaff ==
  \A r \in Reqs :
    LET q == req[r]
    IN /\ (q.ran # {} \/ q.fileStored \/ q.pc = "authorized") => Entitled(q)
       /\ (q.pc = "done" /\ ~Entitled(q)) =>
            /\ Len(q.responses) = 1
            /\ Body(q).t = "error" /\ Body(q).status \in {401, 403, 500}
            /\ q.ran = {} /\ ~q.fileStored
            /\ StoreAsOnArrival(q) /\ q.inserts = 0

\* An entitled request whose file was stored and whose handler saved a record.
C2_Witness ==
  \E r \in Reqs :
    /\ {"upload", "handler", "persist"} \subseteq req[r].ran
    /\ req[r].fileStored
    /\ Len(req[r].saved) >= 1

NoDuplicateKeys(kind, coll) ==
  \A i, j \in 1..Len(coll) :
    i # j => NaturalKey(kind, coll[i]) # NaturalKey(kind, coll[j])

\* C3: with import runs handled one at a time, no two participant documents
\* have the same identificationNumber and no two program documents have
\* names equal ignoring case.
C3_NaturalKeysUnique ==
  /\ NoDuplicateKeys("participants", participants)
  /\ NoDuplicateKeys("programs", programs)

\* A completed run whose two valid programs have names equal ignoring case
\* but not equal, one of them saved.
C3_Witness ==
  \E r \in Reqs :
    LET q == req[r]
    IN /\ Answered(q, "import") /\ q.kind = "programs"
       /\ Len(q.valid) = 2 /\ q.valid[1] # q.valid[2]
       /\ NaturalKey(q.kind, q.valid[1]) = NaturalKey(q.kind, q.valid[2])
       /\ Len(q.saved) = 1

\* C4: a first import (no store fault, N valid records with distinct keys
\* new to the store) saves N records with no saveErrors; the same valid list
\* imported again, with no store fault, saves none, reports N saveErrors, all
\* "already exists", and leaves the store as the first run left it.
C4_DuplicateSkipIdempotent ==
  \A r \in Reqs :
    LET q == req[r]
        N == Len(q.valid)
    IN /\ (Answered(q, "import") /\ FirstImport(q)) =>
            /\ Len(Body(q).saved) = N /\ Body(q).summary.saved = N
            /\ Body(q).saveErrors = <<>> /\ Body(q).summary.saveErrors = 0
       /\ (Answered(q, "import") /\ ~q.faults /\ q.before.some
             /\ q.before.kind = q.kind /\ q.before.valid = q.valid) =>
            /\ q.before.nSaved = N /\ q.before.nErrors = 0
            /\ Body(q).saved = <<>> /\ Body(q).summary.saved = 0
            /\ Len(Body(q).saveErrors) = N /\ Body(q).summary.saveErrors = N
            /\ \A i \in 1..N : Body(q).saveErrors[i] =
                                 [record |-> q.valid[i], error |-> MsgExists(q.kind)]
            /\ StoreAsOnArrival(q)

\* The second import of the same two valid participants has been answered.
C4_Witness ==
  \E r \in Reqs :
    LET q == req[r]
    IN /\ Answered(q, "import") /\ ~q.faults /\ q.before.some
       /\ q.before.kind = q.kind /\ q.before.valid = q.valid
       /\ q.kind = "participants" /\ Len(q.valid) = 2

\* C5: every request that reached the handler with an uploaded file has had
\* the deletion of its temp file issued by the time it is answered.
C5_TempFileAlwaysDeleted ==
  \A r \in Reqs :
    (req[r].pc = "done" /\ "handler" \in req[r].ran /\ req[r].file.present)
      => req[r].unlinked

\* C6: when parsing throws or the extraction returns success=false the run
\* ends there with exactly one error response (no validation result, no
\* per-record list), no store insert, and the store as it was.
C6_FatalErrorAbortsRun ==
  \A r \in Reqs :
    LET q == req[r]
    IN q.fatal # "none" =>
         /\ q.pc = "done"
         /\ Len(q.responses) = 1
         /\ Body(q).t = "error" /\ Body(q).status \in {400, 500}
         /\ q.ran \cap {"validate", "persist"} = {}
         /\ q.valid = <<>> /\ q.invalid = <<>> /\ q.saved = <<>> /\ q.saveErrors = <<>>
         /\ q.inserts = 0 /\ StoreAsOnArrival(q)

\* A non-dry-run request ended by an extraction failure over a filled store.
C6_Witness ==
  \E r \in Reqs :
    /\ req[r].fatal = "extract" /\ req[r].pc = "done"
    /\ ~req[r].isDryRun
    /\ Len(participants) >= 1

InStore(kind, doc) ==
  LET coll == IF kind = "participants" THEN participants ELSE programs
  IN \E i \in 1..Len(coll) : coll[i] = doc

\* C7: in a non-dry-run import a failed store read, a failed insert and a
\* duplicate each put record k into saveErrors; every record saved stays in
\* the store; every valid record is attempted once, in order, whatever
\* happened to the ones before; the request ends with 'Import completed'.
C7_PerRecordErrorsNonFatal ==
  \A r \in Reqs :
    LET q == req[r]
        errs == SelectSeq(q.log, LAMBDA e : e.what # "saved")
        oks == SelectSeq(q.log, LAMBDA e : e.what = "saved")
    IN /\ \A i \in 1..Len(q.saved) : InStore(q.kind, q.saved[i])
       /\ ("persist" \in q.ran /\ q.pc = "done") =>
            /\ Len(q.responses) = 1
            /\ Body(q).t = "import" /\ Body(q).status = 200
            /\ Body(q).message = "Import completed"
            /\ Len(q.log) = Len(q.valid)
            /\ \A i \in 1..Len(q.log) : q.log[i].k = i
            /\ Len(Body(q).saveErrors) = Len(errs)
            /\ \A j \in 1..Len(errs) :
                 /\ Body(q).saveErrors[j].record = q.valid[errs[j].k]
                 /\ errs[j].what = "dup" => Body(q).saveErrors[j].error = MsgExists(q.kind)
            /\ Len(Body(q).saved) = Len(oks)
            /\ \A j \in 1..Len(oks) :
                 NaturalKey(q.kind, Body(q).saved[j]) = NaturalKey(q.kind, q.valid[oks[j].k])

\* A completed run whose first record met a store failure and whose second
\* record was saved.
C7_Witness ==
  \E r \in Reqs :
    LET q == req[r]
    IN /\ Answered(q, "import") /\ Len(q.log) = 2
       /\ q.log[1].what \in {"read", "create"}
       /\ q.log[2].what = "saved"

\* C8: for any array of extracted records (fields missing, empty, strings or
\* non-string values) a rule-breaking record is collected as invalid and the
\* run is still answered with its lists: validation never aborts the run.
C8_ValidationNeverAborts ==
  \A r \in Reqs :
    LET q == req[r]
    IN (q.pc = "done" /\ "validate" \in q.ran /\ q.dataIsArray) =>
         /\ Body(q).t \in {"dryRun", "import"}
         /\ Len(q.valid) + Len(q.invalid) = Len(q.data)

\* The indices of data, in order, whose validation result has isValid = want.
Picks(kind, data, want) ==
  SelectSeq([i \in 1..Len(data) |-> i],
            LAMBDA i : validateData(kind, data[i]).isValid = want)

\* C9: once validation has been done, the valid list is the records whose
\* result is valid and the invalid list the others, both in the order of the
\* extraction, each invalid entry with that record's errors; the dry-run
\* response carries these lists and valid + invalid = totalProcessed.
C9_ValidationPartitions ==
  \A r \in Reqs :
    LET q == req[r]
        vi == Picks(q.kind, q.data, TRUE)
        ii == Picks(q.kind, q.data, FALSE)
    IN (q.pc \in {"validated", "persisting", "scanned"}
          \/ Answered(q, "dryRun") \/ Answered(q, "import")) =>
         /\ Len(q.valid) = Len(vi)
         /\ \A j \in 1..Len(vi) : q.valid[j] = q.data[vi[j]]
         /\ Len(q.invalid) = Len(ii)
         /\ \A j \in 1..Len(ii) :
              q.invalid[j] = [record |-> q.data[ii[j]],
                              errors |-> validateData(q.kind, q.data[ii[j]]).errors]
         /\ Len(vi) + Len(ii) = Len(q.data)
         /\ Answered(q, "dryRun") =>
              /\ Body(q).valid = q.valid /\ Body(q).invalid = q.invalid
              /\ Body(q).summary.valid = Len(Body(q).valid)
              /\ Body(q).summary.invalid = Len(Body(q).invalid)
              /\ Body(q).summary.totalProcessed = Len(q.data)
              /\ Body(q).summary.valid + Body(q).summary.invalid
                   = Body(q).summary.totalProcessed

\* A dry run answered with one invalid record followed by one valid record.
C9_Witness ==
  \E r \in Reqs :
    LET q == req[r]
    IN /\ Answered(q, "dryRun") /\ Len(q.data) = 2
       /\ Len(q.valid) = 1 /\ Len(q.invalid) = 1
       /\ q.valid[1] = q.data[2]
       /\ q.invalid[1].errors # <<>>

\* C10: in every 'Import completed' response the three summary counts are the
\* lengths of the saved, saveErrors and invalid lists, and they add up to
\* totalProcessed, the number of extracted records.
C10_SummaryAccountsForEveryRecord ==
  \A r \in Reqs :
    LET q == req[r]
        b == Body(q)
    IN Answered(q, "import") =>
         /\ b.summary.saved = Len(b.saved)
         /\ b.summary.saveErrors = Len(b.saveErrors)
         /\ b.summary.validationErrors = Len(b.invalid)
         /\ b.summary.totalProcessed = Len(q.data)
         /\ b.summary.saved + b.summary.saveErrors + b.summary.validationErrors
              = b.summary.totalProcessed

\* An 'Import completed' response with a saved record and a duplicate.
C10_Witness ==
  \E r \in Reqs :
    LET q == req[r]
    IN /\ Answered(q, "import")
       /\ Len(Body(q).saved) = 1 /\ Len(Body(q).saveErrors) = 1
       /\ Body(q).saveErrors[1].error = MsgExists(q.kind)

\* ---------------------------------------------- properties of the validators
\* The characters of a string field; an absent field has none.
Chars(v) == IF v = Undef THEN <<>> ELSE v.s

\* A date field that is absent, empty, or a parseable date of the shape.
DateAcceptable(v) ==
  \/ v \in {Undef, EmptyStr}
  \/ MatchesDateShape(v.s) /\ ParsesAsDate(v.s)

ParticipantStringFields(rec) ==
  \A v \in {rec.name, rec.dateOfBirth, rec.referralDate, rec.identificationNumber} :
    v = Undef \/ IsStr(v)

\* The validation of a list of participant records has been done.
ParticipantsValidated(q) ==
  /\ q.kind = "participants" /\ "validate" \in q.ran
  /\ \A i \in 1..Len(q.data) : ParticipantStringFields(q.data[i])

\* The records of the invalid list, in order.
InvalidRecordsOf(q) == [i \in 1..Len(q.invalid) |-> q.invalid[i].record]

\* The participant rule set with the lengths counted as the text is.
ParticipantRuleRaw(rec) ==
  /\ Len(Chars(rec.name)) >= 2
  /\ Len(Chars(rec.identificationNumber)) >= 3
  /\ DateAcceptable(rec.dateOfBirth) /\ DateAcceptable(rec.referralDate)

\* The participant rule set with the lengths counted after trimming.
ParticipantRuleTrimmed(rec) ==
  /\ Len(Trim(Chars(rec.name))) >= 2
  /\ Len(Trim(Chars(rec.identificationNumber))) >= 3
  /\ DateAcceptable(rec.dateOfBirth) /\ DateAcceptable(rec.referralDate)

\* C11 as stated: a participant record with string fields is valid exactly
\* when its name has length >= 2, its identification number length >= 3 and
\* each date is absent, empty or a parseable YYYY-MM-DD date.
C11_RuleSetUntrimmed ==
  \A r \in Reqs :
    LET q == req[r]
    IN ParticipantsValidated(q) =>
         /\ q.pc # "done"
         /\ q.valid = SelectSeq(q.data, ParticipantRuleRaw)

\* C11, amended: a participant record with string fields is valid exactly
\* when its name has length >= 2 and its identification number length >= 3
\* after trimming, and each date is absent, empty or a parseable YYYY-MM-DD
\* date; the verdict is a function of the record alone, whatever the store
\* and the request hold, and the records come out as they went in.
C11_ParticipantRuleSet ==
  \A r \in Reqs :
    LET q == req[r]
    IN ParticipantsValidated(q) =>
         /\ q.pc # "done"
         /\ q.valid = SelectSeq(q.data, ParticipantRuleTrimmed)
         /\ InvalidRecordsOf(q) =
              SelectSeq(q.data, LAMBDA rec : ~ParticipantRuleTrimmed(rec))

\* A record found valid whose name and identification number are padded
\* with spaces and whose two dates are present.
C11_Witness ==
  \E r \in Reqs :
    LET q == req[r]
    IN /\ ParticipantsValidated(q) /\ Len(q.valid) = 1
       /\ q.valid[1].name = Str(<<" ", "a", "n", " ">>)
       /\ q.valid[1].identificationNumber = Str(<<" ", "i", "d", "1">>)
       /\ q.valid[1].dateOfBirth = Date1 /\ q.valid[1].referralDate = Date1

ProgramStringFields(rec) ==
  \A v \in {rec.name, rec.description} : v = Undef \/ IsStr(v)

\* The validation of a list of program records has been done.
ProgramsValidated(q) ==
  /\ q.kind = "programs" /\ "validate" \in q.ran
  /\ \A i \in 1..Len(q.data) : ProgramStringFields(q.data[i])

ProgramRuleRaw(rec) ==
  Len(Chars(rec.name)) >= 2 /\ Len(Chars(rec.description)) >= 10

ProgramRuleTrimmed(rec) ==
  Len(Trim(Chars(rec.name))) >= 2 /\ Len(Trim(Chars(rec.description))) >= 10

\* C12 as stated: a program record with string fields is valid exactly when
\* its name has length >= 2 and its description has length >= 10.
C12_RuleSetUntrimmed ==
  \A r \in Reqs :
    LET q == req[r]
    IN ProgramsValidated(q) =>
         /\ q.pc # "done"
         /\ q.valid = SelectSeq(q.data, ProgramRuleRaw)

\* C12, amended: a program record with string fields is valid exactly when
\* its name has length >= 2 and its description has length >= 10 after
\* trimming; a record whose description is absent or empty is invalid and
\* carries the description message.
C12_ProgramRuleSet ==
  \A r \in Reqs :
    LET q == req[r]
    IN ProgramsValidated(q) =>
         /\ q.pc # "done"
         /\ q.valid = SelectSeq(q.data, ProgramRuleTrimmed)
         /\ InvalidRecordsOf(q) = SelectSeq(q.data, LAMBDA rec : ~ProgramRuleTrimmed(rec))
         /\ \A i \in 1..Len(q.invalid) :
              q.invalid[i].record.description \in {Undef, EmptyStr} =>
                \E j \in 1..Len(q.invalid[i].errors) :
                  q.invalid[i].errors[j] = MsgProgDesc

\* A program with a good name and no description, found invalid for the
\* description alone.
C12_Witness ==
  \E r \in Reqs :
    LET q == req[r]
    IN /\ ProgramsValidated(q) /\ Len(q.invalid) = 1
       /\ q.invalid[1].record.description = Undef
       /\ q.invalid[1].errors = <<MsgProgDesc>>

MissingDate(rec) == rec.dateOfBirth \in {Undef, EmptyStr}

\* C13: a participant record whose dateOfBirth is absent or empty is marked
\* invalid, with an error message for that field.
C13_MissingDateReported ==
  \A r \in Reqs :
    LET q == req[r]
    IN ParticipantsValidated(q) =>
         /\ \A i \in 1..Len(q.valid) : ~MissingDate(q.valid[i])
         /\ \A i \in 1..Len(q.invalid) :
              MissingDate(q.invalid[i].record) =>
                \E j \in 1..Len(q.invalid[i].errors) : q.invalid[i].errors[j] = MsgDob

\* An identification number shorter than 3 characters, or none, in a record
\* whose name and dates break no rule.
ShortIdOnly(rec) ==
  /\ Len(Chars(rec.identificationNumber)) < 3
  /\ Len(Trim(Chars(rec.name))) >= 2
  /\ DateAcceptable(rec.dateOfBirth) /\ DateAcceptable(rec.referralDate)

\* C14: a participant record whose identification number is shorter than 3
\* characters or missing, and whose other fields are valid, is invalid with
\* exactly one error, the identification-number message.
C14_ShortIdSingleError ==
  \A r \in Reqs :
    LET q == req[r]
    IN ParticipantsValidated(q) =>
         /\ \A i \in 1..Len(q.valid) : ~ShortIdOnly(q.valid[i])
         /\ \A i \in 1..Len(q.invalid) :
              ShortIdOnly(q.invalid[i].record) => q.invalid[i].errors = <<MsgIdNum>>
         /\ Len(q.valid) + Len(q.invalid) = Len(q.data)

\* A record with a two-character identification number, a padded name and
\* both dates, found invalid.
C14_Witness ==
  \E r \in Reqs :
    LET q == req[r]
    IN /\ ParticipantsValidated(q) /\ Len(q.invalid) = 1
       /\ ShortIdOnly(q.invalid[1].record)
       /\ q.invalid[1].record.identificationNumber = Str(<<"i", "d">>)
       /\ q.invalid[1].record.name = Str(<<" ", "a", "n", " ">>)
       /\ q.invalid[1].record.referralDate = Date1

\* ------------------------------------------------ properties of the pipeline
\* Field value recv of a record against docv of the stored document: the
\* same, or the model's default where the record has none.
FieldKept(recv, docv, dflt) == docv = recv \/ (~Truthy(recv) /\ docv = dflt)

ParticipantFieldsKept(rec, doc) ==
  /\ FieldKept(rec.name, doc.name, EmptyStr)
  /\ FieldKept(rec.dateOfBirth, doc.dateOfBirth, EmptyStr)
  /\ FieldKept(rec.address, doc.address, EmptyStr)
  /\ FieldKept(rec.referralDate, doc.referralDate, EmptyStr)
  /\ FieldKept(rec.school, doc.school, EmptyStr)
  /\ FieldKept(rec.identificationNumber, doc.identificationNumber, EmptyStr)
  /\ FieldKept(rec.programs, doc.programs, Arr(<<>>))
  /\ FieldKept(rec.notes, doc.notes, Arr(<<>>))

ProgramFieldsKept(rec, doc) ==
  /\ FieldKept(rec.name, doc.name, EmptyStr)
  /\ FieldKept(rec.description, doc.description, EmptyStr)
  /\ FieldKept(rec.participants, doc.participants, Arr(<<>>))

\* The lookup of record rec by its natural key finds a document with the
\* record's fields.
RoundTrips(kind, rec) ==
  LET hit == IF kind = "participants"
             THEN findByIdentificationNumber(participants, rec.identificationNumber)
             ELSE getByName(programs, rec.name)
  IN /\ hit.found
     /\ IF kind = "participants" THEN ParticipantFieldsKept(rec, hit.doc)
        ELSE ProgramFieldsKept(rec, hit.doc)

\* The valid records of the run that the save loop has saved, in order.
SavedRecords(q) ==
  LET oks == SelectSeq(q.log, LAMBDA e : e.what = "saved")
  IN [j \in 1..Len(oks) |-> q.valid[oks[j].k]]

\* C15: every validator-approved record a non-dry-run import has saved is
\* found in the store by its natural key, and the document found has the
\* record's fields, the model's default standing for a field the record
\* lacks.
C15_RoundTrip ==
  \A r \in Reqs :
    LET q == req[r]
    IN /\ Len(SavedRecords(q)) = Len(q.saved)
       /\ \A j \in 1..Len(q.saved) :
            /\ validateData(q.kind, SavedRecords(q)[j]).isValid
            /\ RoundTrips(q.kind, SavedRecords(q)[j])

\* A completed import that saved a participant with a date of birth and no
\* referral date, over a store that held a document before.
C15_Witness ==
  \E r \in Reqs :
    LET q == req[r]
    IN /\ Answered(q, "import") /\ q.kind = "participants"
       /\ Len(q.saved) = 1 /\ Len(q.p0) >= 1
       /\ SavedRecords(q)[1].dateOfBirth = Date1
       /\ SavedRecords(q)[1].referralDate = Undef
       /\ RoundTrips(q.kind, SavedRecords(q)[1])

\* C16: an upload whose extension is not .csv, .xlsx or .xls, whatever its
\* MIME type, and an upload over 10 MB, is answered 400 by the upload
\* middleware: no file is kept, the handler does not run, no completion call
\* is made and nothing is inserted.
C16_OnlySpreadsheetExtensions ==
  \A r \in Reqs :
    LET q == req[r]
    IN (q.sent.part = "file"
          /\ (q.sent.ext \notin allowedExtensions \/ q.sent.oversize)) =>
         /\ q.pc = "done" /\ Len(q.responses) = 1
         /\ Body(q).t = "error" /\ Body(q).status = 400
         /\ ~q.fileStored /\ "handler" \notin q.ran
         /\ q.calls = 0 /\ q.inserts = 0

\* The handler ran and parsing did not fail.
ParsedOk(q) == "handler" \in q.ran /\ q.file.present /\ q.fatal # "parse"

StageStep(q, q2) ==
  \/ q2 = q
  \/ q.pc \in {"idle", "done", "received", "authenticated", "authorized"}
  \/ q.pc = "uploaded" /\ q2.pc = "parsed"
  \/ q.pc = "parsed" /\ q2.pc = "extracted"
  \/ q.pc = "extracted" /\ q2.pc = "validated"
  \/ q.pc = "validated" /\ q2.pc = "persisting" /\ ~q.isDryRun
  \/ q.pc = "validated" /\ Answered(q2, "dryRun") /\ q.isDryRun
  \/ q.pc = "persisting" /\ q2.pc \in {"scanned", "persisting"}
  \/ q.pc = "persisting" /\ Answered(q2, "import")
  \/ q.pc = "scanned" /\ q2.pc = "persisting"
  \/ q.pc \in {"uploaded", "parsed", "extracted"} /\ Answered(q2, "error")

\* The collection of the given kind grew by one document made from record
\* k of the valid list of q.
InsertedBy(q, coll, coll2) ==
  /\ q.pc = "scanned" /\ ~q.isDryRun
  /\ {"handler", "validate", "persist"} \subseteq q.ran /\ q.calls = 1
  /\ Len(q.valid) + Len(q.invalid) = Len(q.data)
  /\ q.k \in 1..Len(q.valid)
  /\ validateData(q.kind, q.valid[q.k]).isValid
  /\ \A i \in 1..Len(q.invalid) : q.invalid[i].record # q.valid[q.k]
  /\ Len(coll2) = Len(coll) + 1
  /\ NaturalKey(q.kind, coll2[Len(coll2)]) = NaturalKey(q.kind, q.valid[q.k])

\* C19: a request moves from Uploaded to Parsed to Extracted to Validated
\* and then to DryRunComplete or through the save loop to Persisted, one
\* stage at a time, or ends with an error; a collection changes only by the
\* insert of a valid record of a request that is not a dry run and has
\* parsed, extracted and validated its whole list.
C19_StagesInOrder ==
  [][/\ \A r \in Reqs : StageStep(req[r], req'[r])
     /\ participants' # participants =>
          /\ programs' = programs
          /\ \E r \in Reqs :
               req[r].kind = "participants"
                 /\ InsertedBy(req[r], participants, participants')
     /\ programs' # programs =>
          /\ participants' = participants
          /\ \E r \in Reqs :
               req[r].kind = "programs" /\ InsertedBy(req[r], programs, programs')
    ]_vars

\* A completed import that saved one record and found the other invalid.
C19_Witness ==
  \E r \in Reqs :
    LET q == req[r]
    IN /\ Answered(q, "import") /\ Len(q.data) = 2
       /\ Len(q.saved) = 1 /\ Len(q.invalid) = 1
       /\ {"upload", "handler", "validate", "persist"} \subseteq q.ran

\* Request q saved document number j of its collection after a scan that
\* had loaded fewer than i documents.
SavedUnseen(q, kind, i, j) ==
  /\ q.kind = kind
  /\ \E m \in 1..Len(q.saved) : q.saved[m].id = j /\ q.seenAt[m] < i

\* Documents i < j of the collection have the same natural key.
SameKey(kind, coll, i, j) ==
  i < j /\ NaturalKey(kind, coll[i]) = NaturalKey(kind, coll[j])

RacedDuplicates(kind, coll) ==
  \A i, j \in 1..Len(coll) :
    SameKey(kind, coll, i, j) => \E r \in Reqs : SavedUnseen(req[r], kind, i, j)

\* C18: the scan and the insert of the save loop are separate store calls
\* with no lock between them: two documents with the same natural key are
\* in a collection only when the run that inserted the later one had loaded
\* the collection before the earlier one was inserted; and with two import
\* runs interleaved such a state is reached.
C18_DuplicatesOnlyByRace ==
  /\ RacedDuplicates("participants", participants)
  /\ RacedDuplicates("programs", programs)

\* Both runs scanned before either inserted, both inserted the same key,
\* and both have answered with one saved record and no saveErrors.
C18_Witness ==
  \E a, b \in Reqs :
    LET qa == req[a]
        qb == req[b]
    IN /\ a # b /\ qa.kind = "participants"
       /\ Answered(qa, "import") /\ Answered(qb, "import")
       /\ Len(Body(qa).saved) = 1 /\ Len(Body(qb).saved) = 1
       /\ Body(qa).saveErrors = <<>> /\ Body(qb).saveErrors = <<>>
       /\ qa.saved[1].identificationNumber = qb.saved[1].identificationNumber
       /\ qa.seenAt[1] = Len(qa.p0) /\ qb.seenAt[1] = Len(qa.p0)
       /\ ~NoDuplicateKeys("participants", participants)

\* No two active documents of the collection have the same natural key.
ActiveKeysUnique(kind, coll) ==
  \A i, j \in 1..Len(coll) :
    (i < j /\ coll[i].isActive /\ coll[j].isActive) =>
      NaturalKey(kind, coll[i]) # NaturalKey(kind, coll[j])

\* C20: after any sequence of import runs, POST /participants,
\* PUT /participants/:id, POST /programs and PUT /programs/:id handled one at
\* a time, no two active participants have the same identification number
\* and no two active programs have names equal ignoring case.
C20_ActiveKeysUniqueEverywhere ==
  /\ ActiveKeysUnique("participants", participants)
  /\ ActiveKeysUnique("programs", programs)

\* ------------------------------------- the routers behind their middleware
\* The middleware named on every POST, PUT and DELETE route of the
\* participants and programs routers.
ReadOnlyGuards == <<"requireHeartSmilesStaff", "requireReadOnlyAccess">>

ParticipantRoutes ==
  { Rt("participants", "GET", "/", <<>>, "getAll", FALSE),
    Rt("participants", "GET", "/:id", <<>>, "getById", FALSE),
    Rt("participants", "GET", "/stats/overview", <<>>, "getStats", FALSE),
    Rt("participants", "POST", "/", ReadOnlyGuards, "create", TRUE),
    Rt("participants", "PUT", "/:id", ReadOnlyGuards, "update", TRUE),
    Rt("participants", "POST", "/:id/programs/:programId", ReadOnlyGuards,
       "addToProgram", TRUE),
    Rt("participants", "DELETE", "/:id/programs/:programId", ReadOnlyGuards,
       "removeFromProgram", TRUE),
    Rt("participants", "POST", "/:id/notes", ReadOnlyGuards, "addNote", TRUE),
    Rt("participants", "DELETE", "/:id/notes/:noteId", ReadOnlyGuards,
       "deleteNote", TRUE),
    Rt("participants", "PUT", "/:id/profile-photo", ReadOnlyGuards,
       "updateProfilePhoto", TRUE),
    Rt("participants", "POST", "/:id/program-photo", ReadOnlyGuards,
       "addProgramPhoto", TRUE),
    Rt("participants", "DELETE", "/:id/program-photo/:photoId", ReadOnlyGuards,
       "deleteProgramPhoto", TRUE),
    Rt("participants", "DELETE", "/:id", ReadOnlyGuards, "delete", TRUE) }

ProgramRoutes ==
  { Rt("programs", "GET", "/", <<>>, "getAll", FALSE),
    Rt("programs", "GET", "/stats/overview", <<>>, "getAllStats", FALSE),
    Rt("programs", "GET", "/name/:name", <<>>, "getByName", FALSE),
    Rt("programs", "GET", "/:id", <<>>, "getById", FALSE),
    Rt("programs", "GET", "/:id/participants", <<>>, "getWithParticipants", FALSE),
    Rt("programs", "GET", "/:id/stats", <<>>, "getStats", FALSE),
    Rt("programs", "POST", "/", ReadOnlyGuards, "create", TRUE),
    Rt("programs", "PUT", "/name/:name", ReadOnlyGuards, "updateByName", TRUE),
    Rt("programs", "PUT", "/:id", ReadOnlyGuards, "update", TRUE),
    Rt("programs", "POST", "/name/:name/participants", ReadOnlyGuards,
       "addParticipantByName", TRUE),
    Rt("programs", "DELETE", "/name/:name/participants/:participantId",
       ReadOnlyGuards, "removeParticipantByName", TRUE),
    Rt("programs", "POST", "/:id/participants/:participantId", ReadOnlyGuards,
       "addParticipant", TRUE),
    Rt("programs", "DELETE", "/:id/participants/:participantId", ReadOnlyGuards,
       "removeParticipant", TRUE),
    Rt("programs", "DELETE", "/:id", ReadOnlyGuards, "delete", TRUE) }

ImportRoutes ==
  { Rt("import", "POST", "/participants", <<>>, "importParticipants", TRUE),
    Rt("import", "POST", "/programs", <<>>, "importPrograms", TRUE) }

UploadRoutes ==
  { Rt("upload", "POST", "/single", <<>>, "uploadSingle", TRUE),
    Rt("upload", "POST", "/multiple", <<>>, "uploadMultiple", TRUE),
    Rt("upload", "DELETE", "/:publicId", <<>>, "deleteImage", TRUE) }

StaffRoutes ==
  { Rt("staff", "GET", "/", <<"requireHeartSmilesStaff">>, "getAll", FALSE),
    Rt("staff", "GET", "/:id", <<"requireHeartSmilesStaff">>, "getById", FALSE),
    Rt("staff", "PUT", "/:id", <<"requireHeartSmilesStaff">>, "update", TRUE),
    Rt("staff", "DELETE", "/:id", <<"requireHeartSmilesStaff">>, "delete", TRUE) }

Routes ==
  ParticipantRoutes \cup ProgramRoutes \cup ImportRoutes \cup UploadRoutes
    \cup StaffRoutes

\* router.use(...): the middleware every request to the router goes through.
RouterUse(router) ==
  CASE router \in {"participants", "programs"} ->
         <<"authenticateToken", "requireStaffAccess">>
    [] router \in {"import", "upload"} ->
         <<"authenticateToken", "requireHeartSmilesStaff">>
    [] OTHER -> <<"authenticateToken">>

\* Faulty variant of Chain: the middleware named on the route is left out.
ChainRouterOnly(route) == RouterUse(route.router)

\* The middleware between the request and the route's handler, in order.
Chain(route) == RouterUse(route.router) \o route.guards

\* Express runs the chain in order; a middleware that answers ends it.
RECURSIVE Through(_, _, _, _)
Through(q, chain, method, dbOk) ==
  IF chain = <<>> \/ q.pc = "done" THEN q
  ELSE LET m == Head(chain)
           q1 == CASE m = "authenticateToken" -> authenticateToken(q, dbOk)
                   [] m = "requireStaffAccess" -> requireStaffAccess(q)
                   [] m = "requireHeartSmilesStaff" -> requireHeartSmilesStaff(q)
                   [] OTHER -> requireReadOnlyAccess(q, method)
       IN Through(q1, Tail(chain), method, dbOk)

\* The request as the route's middleware leaves it: answered, or at the
\* handler.
Routed(route, tok, dbOk) ==
  LET q0 == [IdleReq EXCEPT !.pc = "received", !.token = tok, !.route = route,
                            !.p0 = participants, !.g0 = programs]
      q1 == Through(q0, Chain(route), route.method, dbOk)
      seen == [secret |-> jwtSecret, exists |-> tok.userId \in DOMAIN staff,
               doc |-> IF tok.userId \in DOMAIN staff THEN staff[tok.userId]
                       ELSE NoUser,
               read |-> IF ~jwtSecret \/ tok.t # "valid" THEN "none"
                        ELSE IF dbOk THEN "ok" ELSE "failed"]
  IN IF q1.pc = "done" THEN [q1 EXCEPT !.auth = seen]
     ELSE [q1 EXCEPT !.auth = seen, !.pc = "handler", !.ran = {"handler"}]

\* A request to any route of the routers; the one before it has been
\* answered or has reached its handler.
Route ==
  /\ req[FirstReq].pc \in {"idle", "done", "handler"}
  /\ \E route \in Routes, tok \in Tokens :
       \E dbOk \in IF tok.t = "valid" THEN BOOLEAN ELSE {TRUE} :
         req' = [req EXCEPT ![FirstReq] = Routed(route, tok, dbOk)]
  /\ StoreFrame /\ UNCHANGED prev

\* AuthController.login; u is the staff member the email names (GhostId:
\* none), password how the password sent compares with the one stored.
Passwords == {"unset", "mismatch", "match"}

login(q, u, password) ==
  IF u \notin DOMAIN staff THEN Respond(q, ErrorBody(401, "Invalid credentials"))
  ELSE IF staff[u].isActive = Bool(FALSE)
    THEN Respond(q, ErrorBody(401, "Account is deactivated"))
  ELSE IF password # "match" THEN Respond(q, ErrorBody(401, "Invalid credentials"))
  ELSE IF ~jwtSecret
    THEN Respond(q, ErrorBody(500, "JWT_SECRET is not configured. Cannot generate token."))
  ELSE Respond(q, [t |-> "login", status |-> 200, message |-> "Login successful",
                   token |-> [t |-> "valid", userId |-> u]])

\* POST /auth/login.  The exchange is kept in the second slot: the staff
\* document as login read it, and the response.
Login ==
  \E u \in StaffIds \cup {GhostId}, password \in Passwords :
    LET seen == [secret |-> jwtSecret, exists |-> u \in DOMAIN staff,
                 doc |-> IF u \in DOMAIN staff THEN staff[u] ELSE NoUser,
                 read |-> "ok"]
        q0 == [IdleReq EXCEPT !.pc = "received", !.auth = seen,
                              !.route = Rt("auth", "POST", "/login", <<>>, "login", FALSE)]
    IN /\ req' = [req EXCEPT !["r2"] = login(q0, u, password)]
       /\ StoreFrame /\ UNCHANGED prev

\* The staff of Init over empty collections, no request made yet.
InitAccess ==
  /\ participants = <<>> /\ programs = <<>>
  /\ staff = InitStaff
  /\ jwtSecret \in BOOLEAN
  /\ req = [r \in Reqs |-> IdleReq]
  /\ prev = NoPrev

NextAccess == Route \/ Login

SpecAccess == InitAccess /\ [][NextAccess]_vars

\* ------------------------------------------- the handlers behind the routes
\* Ids a request can carry: that of the first document, and one that names no
\* document; the id of a note the first participant has, and one it has not.
DocIds == {1, 9}
NoteIds == {"n1", "n9"}

\* What a model method gives its caller: a value, or a thrown Error
\* (storeFault: the error came from the store call, not from the method).
Returned(value) == [ok |-> TRUE, value |-> value, message |-> "", storeFault |-> FALSE]
Thrown(message, storeFault) ==
  [ok |-> FALSE, value |-> Undef, message |-> message, storeFault |-> storeFault]

\* catch (error) { throw new Error(`${prefix}${error.message}`) }
Rethrown(prefix, result) ==
  IF result.ok THEN result ELSE Thrown(prefix \o result.message, result.storeFault)

\* doc(id).get() of a collection kept as a sequence, ids being positions.
ParticipantGetById(coll, id, readOk) ==
  Rethrown("Error getting participant: ",
    IF ~readOk THEN Thrown("UNAVAILABLE", TRUE)
    ELSE IF id \notin 1..Len(coll) THEN Thrown("Participant not found", FALSE)
    ELSE Returned(coll[id]))

ProgramGetById(coll, id, readOk) ==
  Rethrown("Error getting program: ",
    IF ~readOk THEN Thrown("UNAVAILABLE", TRUE)
    ELSE IF id \notin 1..Len(coll) THEN Thrown("Program not found", FALSE)
    ELSE Returned(coll[id]))

StaffGetById(coll, id, readOk) ==
  Rethrown("Error getting staff member: ",
    IF ~readOk THEN Thrown("UNAVAILABLE", TRUE)
    ELSE IF id \notin DOMAIN coll THEN Thrown("Staff member not found", FALSE)
    ELSE Returned(coll[id]))

\* doc(id).update(...): fails on a document that does not exist and when
\* the store call fails.
UpdateThrown(exists, writeOk) ==
  IF ~writeOk THEN Thrown("UNAVAILABLE", TRUE) ELSE Thrown("NOT_FOUND", ~exists)

Includes(arr, x) == \E i \in 1..Len(arr.a) : arr.a[i] = x
arrayUnion(arr, x) == IF Includes(arr, x) THEN arr ELSE Arr(Append(arr.a, x))
arrayRemove(arr, x) == Arr(SelectSeq(arr.a, LAMBDA y : y # x))

\* Participant.removeNote; the value returned is the collection as the call
\* leaves it.
removeNote(coll, participantId, noteId, writeOk) ==
  LET got == ParticipantGetById(coll, participantId, TRUE)
      updatedNotes == SelectSeq(got.value.notes.a, LAMBDA note : note.id # noteId)
  IN Rethrown("Error removing note: ",
       IF ~got.ok THEN got
       ELSE IF Len(updatedNotes) = Len(got.value.notes.a)
         THEN Thrown("Note not found", FALSE)
       ELSE IF ~writeOk THEN UpdateThrown(TRUE, writeOk)
       ELSE Returned([coll EXCEPT ![participantId].notes = Arr(updatedNotes)]))

\* Participant.addToProgram
ParticipantAddToProgram(coll, participantId, programId, writeOk) ==
  LET got == ParticipantGetById(coll, participantId, TRUE)
  IN Rethrown("Error adding participant to program: ",
       IF ~got.ok THEN got
       ELSE IF Includes(got.value.programs, programId) THEN Returned(coll)
       ELSE IF ~writeOk THEN UpdateThrown(TRUE, writeOk)
       ELSE Returned([coll EXCEPT ![participantId].programs = arrayUnion(@, programId)]))

\* Participant.removeFromProgram
ParticipantRemoveFromProgram(coll, participantId, programId, writeOk) ==
  Rethrown("Error removing participant from program: ",
    IF ~writeOk \/ participantId \notin 1..Len(coll)
    THEN UpdateThrown(participantId \in 1..Len(coll), writeOk)
    ELSE Returned([coll EXCEPT ![participantId].programs = arrayRemove(@, programId)]))

\* Program.addParticipant
ProgramAddParticipant(coll, programId, participantId, writeOk) ==
  LET got == ProgramGetById(coll, programId, TRUE)
  IN Rethrown("Error adding participant to program: ",
       IF ~got.ok THEN got
       ELSE IF Includes(got.value.participants, participantId) THEN Returned(coll)
       ELSE IF ~writeOk THEN UpdateThrown(TRUE, writeOk)
       ELSE Returned([coll EXCEPT ![programId].participants = arrayUnion(@, participantId)]))

\* Program.removeParticipant
ProgramRemoveParticipant(coll, programId, participantId, writeOk) ==
  Rethrown("Error removing participant from program: ",
    IF ~writeOk \/ programId \notin 1..Len(coll)
    THEN UpdateThrown(programId \in 1..Len(coll), writeOk)
    ELSE Returned([coll EXCEPT ![programId].participants = arrayRemove(@, participantId)]))

\* Staff.update with updateData = {isActive}; Undef: the field is not sent.
StaffUpdate(coll, id, isActive, writeOk) ==
  Rethrown("Error updating staff member: ",
    IF ~writeOk \/ id \notin DOMAIN coll THEN UpdateThrown(id \in DOMAIN coll, writeOk)
    ELSE Returned(IF isActive = Undef THEN coll
                  ELSE [coll EXCEPT ![id].isActive = isActive]))

\* Staff.delete
StaffDelete(coll, id, writeOk) ==
  Rethrown("Error deleting staff member: ",
    IF ~writeOk \/ id \notin DOMAIN coll THEN UpdateThrown(id \in DOMAIN coll, writeOk)
    ELSE Returned([coll EXCEPT ![id].isActive = Bool(FALSE)]))

\* res.json(...) of a handler that succeeded.
OkBody(message) == [t |-> "ok", status |-> 200, message |-> message]

\* The catch block of the lookup handlers: 404 when the message is one of
\* notFound, else 500.
CaughtLookup(q, result, notFound) ==
  Respond(q, ErrorBody(IF result.message \in notFound THEN 404 ELSE 500,
                       result.message))

\* The handler is at the route's end: the request has passed the middleware.
AtHandler(router, handler) ==
  /\ req[FirstReq].pc = "handler"
  /\ req[FirstReq].route.router = router
  /\ req[FirstReq].route.handler = handler

\* A handler's response, with the id it was called with, whether the
\* addressed record was missing and whether a store call failed.
Handled(q, id, missing, faults) ==
  [q EXCEPT !.params = [id |-> id, missing |-> missing, faults |-> faults]]

\* GET /participants/:id, GET /programs/:id, GET /staff/:id
GetById ==
  /\ req[FirstReq].route.handler = "getById"
  /\ AtHandler(req[FirstReq].route.router, "getById")
  /\ \E readOk \in BOOLEAN :
       LET q == req[FirstReq]
           router == q.route.router
       IN \E id \in IF router = "staff" THEN StaffIds \cup {GhostId} ELSE DocIds :
            LET got == CASE router = "participants" ->
                              ParticipantGetById(participants, id, readOk)
                         [] router = "programs" -> ProgramGetById(programs, id, readOk)
                         [] OTHER -> StaffGetById(staff, id, readOk)
                notFound == CASE router = "participants" -> {"Participant not found"}
                              [] router = "programs" -> {"Program not found"}
                              [] OTHER -> {"Staff member not found"}
                missing == CASE router = "participants" -> id \notin 1..Len(participants)
                             [] router = "programs" -> id \notin 1..Len(programs)
                             [] OTHER -> id \notin DOMAIN staff
            IN req' = [req EXCEPT ![FirstReq] =
                         Handled(IF got.ok THEN Respond(q, OkBody("found"))
                                 ELSE CaughtLookup(q, got, notFound),
                                 id, missing, ~readOk)]
  /\ StoreFrame /\ UNCHANGED prev

\* DELETE /participants/:id/notes/:noteId: ParticipantController.deleteNote
DeleteNote ==
  /\ AtHandler("participants", "deleteNote")
  /\ \E id \in DocIds, noteId \in NoteIds, writeOk \in BOOLEAN :
       LET q == req[FirstReq]
           done == removeNote(participants, id, noteId, writeOk)
           missing == \/ id \notin 1..Len(participants)
                      \/ \A n \in 1..Len(participants[id].notes.a) :
                           participants[id].notes.a[n].id # noteId
       IN /\ participants' = IF done.ok THEN done.value ELSE participants
          /\ req' = [req EXCEPT ![FirstReq] =
                       Handled(IF done.ok
                               THEN Respond(q, OkBody("Note deleted successfully"))
                               ELSE CaughtLookup(q, done, {"Participant not found",
                                                          "Note not found"}),
                               id, missing, done.storeFault)]
  /\ UNCHANGED <<programs, staff, jwtSecret, prev>>

\* The two calls of a membership handler, the second made when the first
\* returned; then the response, 500 when either threw.
TwoCalls(q, first, second, message) ==
  Handled(IF ~first.ok THEN Respond(q, ErrorBody(500, first.message))
          ELSE IF ~second.ok THEN Respond(q, ErrorBody(500, second.message))
          ELSE Respond(q, OkBody(message)),
          "none", FALSE, first.storeFault \/ (first.ok /\ second.storeFault))

\* POST /participants/:id/programs/:programId
AddToProgram ==
  /\ AtHandler("participants", "addToProgram")
  /\ \E id \in DocIds, programId \in DocIds, ok1 \in BOOLEAN, ok2 \in BOOLEAN :
       LET first == ParticipantAddToProgram(participants, id, programId, ok1)
           second == ProgramAddParticipant(programs, programId, id, ok2)
       IN /\ participants' = IF first.ok THEN first.value ELSE participants
          /\ programs' = IF first.ok /\ second.ok THEN second.value ELSE programs
          /\ req' = [req EXCEPT ![FirstReq] =
                       TwoCalls(req[FirstReq], first, second, "Participant added to program successfully")]
  /\ UNCHANGED <<staff, jwtSecret, prev>>

\* DELETE /participants/:id/programs/:programId
RemoveFromProgram ==
  /\ AtHandler("participants", "removeFromProgram")
  /\ \E id \in DocIds, programId \in DocIds, ok1 \in BOOLEAN, ok2 \in BOOLEAN :
       LET first == ParticipantRemoveFromProgram(participants, id, programId, ok1)
           second == ProgramRemoveParticipant(programs, programId, id, ok2)
       IN /\ participants' = IF first.ok THEN first.value ELSE participants
          /\ programs' = IF first.ok /\ second.ok THEN second.value ELSE programs
          /\ req' = [req EXCEPT ![FirstReq] =
                       TwoCalls(req[FirstReq], first, second, "Participant removed from program successfully")]
  /\ UNCHANGED <<staff, jwtSecret, prev>>

\* POST /programs/:id/participants/:participantId
AddParticipant ==
  /\ AtHandler("programs", "addParticipant")
  /\ \E id \in DocIds, participantId \in DocIds, ok1 \in BOOLEAN, ok2 \in BOOLEAN :
       LET first == ProgramAddParticipant(programs, id, participantId, ok1)
           second == ParticipantAddToProgram(participants, participantId, id, ok2)
       IN /\ programs' = IF first.ok THEN first.value ELSE programs
          /\ participants' = IF first.ok /\ second.ok THEN second.value ELSE participants
          /\ req' = [req EXCEPT ![FirstReq] =
                       TwoCalls(req[FirstReq], first, second, "Participant added to program successfully")]
  /\ UNCHANGED <<staff, jwtSecret, prev>>

\* DELETE /programs/:id/participants/:participantId
RemoveParticipant ==
  /\ AtHandler("programs", "removeParticipant")
  /\ \E id \in DocIds, participantId \in DocIds, ok1 \in BOOLEAN, ok2 \in BOOLEAN :
       LET first == ProgramRemoveParticipant(programs, id, participantId, ok1)
           second == ParticipantRemoveFromProgram(participants, participantId, id, ok2)
       IN /\ programs' = IF first.ok THEN first.value ELSE programs
          /\ participants' = IF first.ok /\ second.ok THEN second.value ELSE participants
          /\ req' = [req EXCEPT ![FirstReq] =
                       TwoCalls(req[FirstReq], first, second, "Participant removed from program successfully")]
  /\ UNCHANGED <<staff, jwtSecret, prev>>

\* The staff members a staff request addresses, and the isActive values a
\* PUT body carries (Undef: none).
StaffTargets == {"s1", "s2", GhostId}
ActiveFields == {Undef, Bool(TRUE), Bool(FALSE)}

\* PUT /staff/:id
UpdateStaff ==
  /\ AtHandler("staff", "update")
  /\ \E id \in StaffTargets, isActive \in ActiveFields, writeOk \in BOOLEAN :
       LET q == req[FirstReq]
           done == StaffUpdate(staff, id, isActive, writeOk)
       IN /\ staff' = IF done.ok THEN done.value ELSE staff
          /\ req' = [req EXCEPT ![FirstReq] =
                       Handled(IF done.ok
                               THEN Respond(q, OkBody("Staff member updated successfully"))
                               ELSE CaughtLookup(q, done, {"Staff member not found"}),
                               id, id \notin DOMAIN staff, done.storeFault)]
  /\ UNCHANGED <<participants, programs, jwtSecret, prev>>

\* DELETE /staff/:id
DeleteStaff ==
  /\ AtHandler("staff", "delete")
  /\ \E id \in StaffTargets, writeOk \in BOOLEAN :
       LET q == req[FirstReq]
           self == id = q.user.id
           done == StaffDelete(staff, id, writeOk)
       IN /\ staff' = IF ~self /\ done.ok THEN done.value ELSE staff
          /\ req' = [req EXCEPT ![FirstReq] =
                       Handled(IF self
                               THEN Respond(q, ErrorBody(400, "Cannot deactivate your own account"))
                               ELSE IF done.ok
                               THEN Respond(q, OkBody("Staff member deactivated successfully"))
                               ELSE Respond(q, ErrorBody(500, done.message)),
                               id, id \notin DOMAIN staff, ~self /\ done.storeFault)]
  /\ UNCHANGED <<participants, programs, jwtSecret, prev>>

\* The routes whose handlers are modelled here.
HandlerRoutes ==
  {route \in Routes :
     <<route.router, route.handler>> \in
       {<<"participants", "getById">>, <<"participants", "deleteNote">>,
        <<"participants", "addToProgram">>, <<"participants", "removeFromProgram">>,
        <<"programs", "getById">>, <<"programs", "addParticipant">>,
        <<"programs", "removeParticipant">>, <<"staff", "getById">>,
        <<"staff", "update">>, <<"staff", "delete">>}}

StaffTokens == {[t |-> "valid", userId |-> u] : u \in {"s1", "s2"}}

\* A request of an active staff member to one of these routes, when the one
\* before it has been answered.
RouteToHandler ==
  /\ req[FirstReq].pc \in {"idle", "done"}
  /\ \E route \in HandlerRoutes, tok \in StaffTokens :
       req' = [req EXCEPT ![FirstReq] = Routed(route, tok, TRUE)]
  /\ StoreFrame /\ UNCHANGED prev

\* One participant with one note, one program, neither a member of the other.
InitHandlers ==
  /\ participants =
       <<ParticipantDoc(1, [PAnn EXCEPT !.notes = Arr(<<[id |-> "n1"]>>)])>>
  /\ programs = <<ProgramDoc(1, GArt)>>
  /\ staff = InitStaff
  /\ jwtSecret = TRUE
  /\ req = [r \in Reqs |-> IdleReq]
  /\ prev = NoPrev

NextHandlers ==
  \/ RouteToHandler
  \/ GetById
  \/ DeleteNote
  \/ AddToProgram
  \/ RemoveFromProgram
  \/ AddParticipant
  \/ RemoveParticipant
  \/ UpdateStaff
  \/ DeleteStaff

SpecHandlers == InitHandlers /\ [][NextHandlers]_vars

\* ------------------------------------------------- properties of the mode
\* C21: a run that got past validation answers 'Dry run completed', without
\* entering the save loop, exactly when its dryRun field is the string
\* "true"; with any other value, and with the field absent, it enters the
\* save loop and answers 'Import completed'; with the field absent and no
\* store fault every valid record ends saved (and in the store) or in
\* saveErrors.
C21_DryRunExactlyTrueField ==
  \A r \in Reqs :
    LET q == req[r]
    IN /\ Answered(q, "dryRun") => q.dryRun = TrueField /\ "persist" \notin q.ran
       /\ "persist" \in q.ran => q.dryRun # TrueField
       /\ (q.pc = "done" /\ "validate" \in q.ran /\ Body(q).t # "error") =>
            IF q.dryRun = TrueField
            THEN Answered(q, "dryRun")
            ELSE Answered(q, "import") /\ "persist" \in q.ran
       /\ (Answered(q, "import") /\ q.dryRun = Undef /\ ~q.faults) =>
            /\ Len(q.saved) + Len(q.saveErrors) = Len(q.valid)
            /\ \A i \in 1..Len(q.saved) : InStore(q.kind, q.saved[i])

\* A run whose dryRun field is "TRUE" saved a record.
C21_Witness ==
  \E r \in Reqs :
    /\ Answered(req[r], "import")
    /\ req[r].dryRun = Str(<<"T", "R", "U", "E">>)
    /\ Len(req[r].saved) >= 1
    /\ InStore(req[r].kind, req[r].saved[1])

\* ------------------------------------------- properties of the save loop
\* Whether no record before position i of the list has record i's key.
FirstWithKey(kind, list, i) ==
  \A j \in 1..(i - 1) : NaturalKey(kind, list[j]) # NaturalKey(kind, list[i])

\* The documents of the sequence docs that carry the key of record data.
WithKey(kind, docs, data) ==
  {n \in 1..Len(docs) : NaturalKey(kind, docs[n]) = NaturalKey(kind, data)}

\* C23: in an import answered with no store fault, of the valid records that
\* share a natural key the store did not hold when the request arrived, the
\* first in list order is saved and each later one is in saveErrors as
\* "already exists"; the response and the store hold one document with
\* that key.
C23_FirstOfSameKeyInserted ==
  \A r \in Reqs :
    LET q == req[r]
        coll == IF q.kind = "participants" THEN participants ELSE programs
    IN (Answered(q, "import") /\ ~q.faults) =>
         \A i \in 1..Len(q.valid) :
           ~KeyPresent(q.kind, q.p0, q.g0, q.valid[i]) =>
             /\ Cardinality(WithKey(q.kind, q.saved, q.valid[i])) = 1
             /\ Cardinality(WithKey(q.kind, coll, q.valid[i])) = 1
             /\ IF FirstWithKey(q.kind, q.valid, i)
                THEN /\ \E n \in 1..Len(q.saved) :
                          /\ q.saved[n].name = q.valid[i].name
                          /\ NaturalKey(q.kind, q.saved[n]) = NaturalKey(q.kind, q.valid[i])
                          /\ InStore(q.kind, q.saved[n])
                     /\ Cardinality({e \in 1..Len(q.saveErrors) :
                            NaturalKey(q.kind, q.saveErrors[e].record) =
                              NaturalKey(q.kind, q.valid[i])}) =
                          Cardinality(WithKey(q.kind, q.valid, q.valid[i])) - 1
                ELSE \E e \in 1..Len(q.saveErrors) :
                       q.saveErrors[e] =
                         [record |-> q.valid[i], error |-> MsgExists(q.kind)]

\* An import of two programs whose names differ only in case, over a store
\* without that name, has been answered: one saved, one "already exists".
C23_Witness ==
  \E r \in Reqs :
    LET q == req[r]
    IN /\ Answered(q, "import") /\ ~q.faults
       /\ q.kind = "programs" /\ Len(q.valid) = 2
       /\ q.valid[1] # q.valid[2]
       /\ ~DistinctKeys(q.kind, q.valid)
       /\ ~KeyPresent(q.kind, q.p0, q.g0, q.valid[1])
       /\ Len(q.saved) = 1 /\ Len(q.saveErrors) = 1

\* Whether every document of the collections p, g that carries the key of
\* record data is soft-deleted, and there is one.
OnlySoftDeleted(kind, p, g, data) ==
  LET coll == IF kind = "participants" THEN p ELSE g
  IN /\ KeyPresent(kind, p, g, data)
     /\ \A n \in WithKey(kind, coll, data) : ~coll[n].isActive

\* C24: in an import answered with no store fault, a valid record whose
\* natural key the store held only on soft-deleted documents when the
\* request arrived, the first of the list with that key, is saved as a new
\* document and is not in saveErrors.
C24_SoftDeletedKeyReimported ==
  \A r \in Reqs :
    LET q == req[r]
    IN (Answered(q, "import") /\ ~q.faults) =>
         \A i \in 1..Len(q.valid) :
           (OnlySoftDeleted(q.kind, q.p0, q.g0, q.valid[i])
              /\ FirstWithKey(q.kind, q.valid, i)) =>
             /\ \E n \in 1..Len(q.saved) :
                  NaturalKey(q.kind, q.saved[n]) = NaturalKey(q.kind, q.valid[i])
             /\ \A e \in 1..Len(q.saveErrors) :
                  q.saveErrors[e].record # q.valid[i]

\* ------------------------------------------ properties of authenticateToken
\* The request was answered by authenticateToken: it never got a user.
AnsweredByAuth(q) == q.pc = "done" /\ q.user = NoUser /\ Len(q.responses) = 1

\* C28: when the secret is set, the token verifies and the staff read does
\* not fail, a userId that names no staff document or a document that is
\* not active is answered 401 'Invalid or inactive user' and goes no
\* further; authenticateToken answers 500 only when the secret is missing,
\* jwt.verify fails unexpectedly or the staff read fails.
C28_UnknownOrInactiveUserIs401 ==
  \A r \in Reqs :
    LET q == req[r]
    IN /\ (q.auth.read = "ok"
            /\ (~q.auth.exists \/ ~Truthy(q.auth.doc.isActive))) =>
            /\ AnsweredByAuth(q)
            /\ Body(q) = ErrorBody(401, "Invalid or inactive user")
       /\ (AnsweredByAuth(q) /\ Body(q).status = 500) =>
            \/ ~q.auth.secret
            \/ q.token.t = "notBefore"
            \/ q.auth.read = "failed"

\* ------------------------------------------------ properties of the access
\* C22: a request of a staff member whose role is umd, with any method but
\* GET, to a route of the participants, programs, import or upload router is
\* answered 403 and does not reach the route's handler; a request that
\* reaches a handler that creates, updates or deletes was made by a staff
\* member whose role is heartSmiles.
C22_WritesOnlyByHeartSmiles ==
  LET q == req[FirstReq]
  IN /\ (q.route.router \in {"participants", "programs", "import", "upload"}
           /\ q.route.method # "GET"
           /\ q.user.role = "umd") =>
          /\ q.pc = "done" /\ Len(q.responses) = 1
          /\ Body(q).status = 403
          /\ "handler" \notin q.ran
     /\ (q.route.write /\ "handler" \in q.ran) =>
          /\ q.user.role = "heartSmiles"
          /\ q.auth.exists /\ q.auth.doc.role = "heartSmiles"
     /\ (q.route.router \in {"participants", "programs", "import", "upload"}
           /\ q.route.method # "GET") => q.route.write

\* An active umd staff member asked for DELETE /participants/:id and was
\* answered 403.
C22_Witness ==
  LET q == req[FirstReq]
  IN /\ q.route = Rt("participants", "DELETE", "/:id", ReadOnlyGuards, "delete", TRUE)
     /\ q.user.role = "umd" /\ q.auth.read = "ok"
     /\ q.pc = "done" /\ Body(q).status = 403

\* C25: when login succeeded for a staff member and a request carries the
\* token it issued, verifiable, with the secret set, the staff read not
\* failing and the staff document the one login read, authenticateToken
\* lets the request through.
C25_LoginAndAuthAgree ==
  LET l == req["r2"]
      q == req[FirstReq]
  IN (/\ Answered(l, "login")
      /\ q.pc # "idle" /\ q.token = Body(l).token
      /\ q.auth.secret /\ q.auth.read = "ok"
      /\ q.auth.doc = l.auth.doc) =>
       /\ ~AnsweredByAuth(q)
       /\ q.user = l.auth.doc

\* ---------------------------------------------- properties of the handlers
\* C26: GET /participants/:id, GET /programs/:id, GET /staff/:id and
\* DELETE /participants/:id/notes/:noteId, when the participant, program,
\* staff member or note addressed does not exist and no store call failed,
\* answer 404 with a 'not found' error.
C26_MissingRecordIs404 ==
  LET q == req[FirstReq]
  IN (/\ q.pc = "done" /\ "handler" \in q.ran
      /\ <<q.route.router, q.route.handler>> \in
           {<<"participants", "getById">>, <<"programs", "getById">>,
            <<"staff", "getById">>, <<"participants", "deleteNote">>}
      /\ q.params.missing /\ ~q.params.faults) =>
       /\ Body(q).status = 404
       /\ Body(q).error \in {"Participant not found", "Program not found",
                             "Staff member not found", "Note not found"}

\* C27: when no request is under way, participant p's programs list holds
\* program g's id exactly when g's participants list holds p's id, for
\* every participant and program of the store.
C27_MembershipSymmetric ==
  req[FirstReq].pc \in {"idle", "done"} =>
    \A p \in 1..Len(participants), g \in 1..Len(programs) :
      Includes(participants[p].programs, g) <=> Includes(programs[g].participants, p)

\* C29: a request to a staff route made with a staff member's own token,
\* once answered, has not left that staff member's document with
\* isActive = false.
C29_NoSelfDeactivation ==
  LET q == req[FirstReq]
  IN (q.pc = "done" /\ "handler" \in q.ran /\ q.route.router = "staff") =>
       staff[q.user.id].isActive # Bool(FALSE)

====
